---- MODULE Spec2Model ----
(***************************************************************************)
(* Model of the bounded-concurrency scanning engine                        *)
(* (internal/network/scanner.go), of the bulk DNS processor                *)
(* (internal/dns/checker.go) and of the monitor command                    *)
(* (internal/cli/network_commands.go).                                     *)
(*                                                                         *)
(* Strings are sequences of ASCII codes, so that formatting (Itoa,         *)
(* String), splitting (Split) and parsing (Sscanf, dtoi) are computed as   *)
(* the code computes them.  A goroutine is a position (a pc value) in a    *)
(* function; a buffered channel is its buffer (a sequence) plus a closed   *)
(* flag; a WaitGroup is its counter; a semaphore channel is its length.    *)
(***************************************************************************)
EXTENDS Integers, Sequences, FiniteSets, TLC

(***************************************************************************)
(* Bounds of the model.                                                    *)
(***************************************************************************)
\* SetConcurrency is called with limits in 1..MaxConcurrency
MaxConcurrency == 2
\* SetBatchSize is called with sizes in 1..MaxBatchSize
MaxBatchSize == 2
\* a discovery call is made with at most MaxDiscoveryWork probes: one
\* liveness probe and Len(ports) port probes for each address
MaxDiscoveryWork == 4

\* NewBulkProcessor is given a worker count in -1..MaxWorkers
MaxWorkers == 2
\* a bulk operation is given 1..MaxDomains domains
MaxDomains == 3

\* the ticker of the monitor fires at most MaxTicks times
MaxTicks == 4

\* ParsePortRange is given every string of up to MaxPortLen bytes of PortBytes
MaxPortLen == 4

\* generateIPs is given addresses of 1..MaxFields fields
MaxFields == 4

(***************************************************************************)
(* Strings.                                                                *)
(***************************************************************************)
Dot == 46
Slash == 47
Zero == 48

IsDigit(c) == c \in Zero..(Zero + 9)

\* strconv.Itoa / the %d verb of Sprintf, for n >= 0
RECURSIVE Itoa(_)
Itoa(n) == IF n < 10 THEN <<Zero + n>> ELSE Itoa(n \div 10) \o <<Zero + (n % 10)>>

\* 1-based index of the first c in str, 0 when there is none
IndexByte(str, c) ==
  IF \E k \in 1..Len(str) : str[k] = c
  THEN CHOOSE k \in 1..Len(str) : str[k] = c /\ \A j \in 1..(k - 1) : str[j] # c
  ELSE 0

\* strings.Split(str, sep) for a one-byte separator
RECURSIVE Split(_, _)
Split(str, c) ==
  LET k == IndexByte(str, c)
  IN IF k = 0 THEN <<str>>
     ELSE <<SubSeq(str, 1, k - 1)>> \o Split(SubSeq(str, k + 1, Len(str)), c)

HasSuffix(str, suf) ==
  Len(str) >= Len(suf) /\ SubSeq(str, Len(str) - Len(suf) + 1, Len(str)) = suf

TrimSuffix(str, suf) ==
  IF HasSuffix(str, suf) THEN SubSeq(str, 1, Len(str) - Len(suf)) ELSE str

\* value of the longest prefix of decimal digits, and its length
RECURSIVE ScanDigits(_, _, _)
ScanDigits(str, n, len) ==
  IF str # <<>> /\ IsDigit(Head(str))
  THEN ScanDigits(Tail(str), n * 10 + (Head(str) - Zero), len + 1)
  ELSE [n |-> n, len |-> len]

\* fmt.Sscanf(str, "%d", &n) into n = 0: an optional sign and the leading
\* digits; n stays 0 when there is no digit
Sscanf(str) ==
  IF str # <<>> /\ str[1] = 45 THEN 0 - ScanDigits(Tail(str), 0, 0).n
  ELSE IF str # <<>> /\ str[1] = 43 THEN ScanDigits(Tail(str), 0, 0).n
  ELSE ScanDigits(str, 0, 0).n

(***************************************************************************)
(* Addresses.                                                              *)
(***************************************************************************)
Pow2(n) == CASE n = 0 -> 1 [] n = 1 -> 2 [] n = 2 -> 4 [] n = 3 -> 8 [] n = 4 -> 16
             [] n = 5 -> 32 [] n = 6 -> 64 [] n = 7 -> 128 [] n = 8 -> 256

\* one IPv4 field of netip.ParseAddr: 1 to 3 digits, no leading zero, <= 255
ParseField(str) ==
  LET d == ScanDigits(str, 0, 0)
  IN IF str = <<>> \/ d.len # Len(str) \/ Len(str) > 3 THEN -1
     ELSE IF Len(str) > 1 /\ str[1] = Zero THEN -1
     ELSE IF d.n > 255 THEN -1
     ELSE d.n

\* net.ParseCIDR for IPv4: the network address (masked) and the prefix length
ParseCIDR(str) ==
  LET k == IndexByte(str, Slash)
      addr == Split(SubSeq(str, 1, k - 1), Dot)
      mask == SubSeq(str, k + 1, Len(str))
      n == ScanDigits(mask, 0, 0)
      bytes == [b \in 1..4 |-> ParseField(addr[b])]
  IN IF k = 0 THEN [err |-> TRUE]
     ELSE IF Len(addr) # 4 \/ \E b \in 1..4 : bytes[b] < 0 THEN [err |-> TRUE]
     ELSE IF mask = <<>> \/ n.len # Len(mask) \/ n.n > 32 THEN [err |-> TRUE]
     ELSE [err |-> FALSE, IP |-> bytes, Bits |-> n.n]

\* number of mask bits that fall into byte b (1..4) of a prefix of n bits
MaskBits(n, b) ==
  LET r == n - 8 * (b - 1) IN IF r < 0 THEN 0 ELSE IF r > 8 THEN 8 ELSE r

\* IP.Mask: byte-wise AND with the mask
MaskIP(ip, bits) ==
  [b \in 1..4 |-> ip[b] - (ip[b] % Pow2(8 - MaskBits(bits, b)))]

\* IPNet.Contains
Contains(ipNet, ip) == MaskIP(ip, ipNet.Bits) = ipNet.IP

\* IP.String of a 4-byte address
String(ip) ==
  Itoa(ip[1]) \o <<Dot>> \o Itoa(ip[2]) \o <<Dot>> \o Itoa(ip[3]) \o <<Dot>> \o Itoa(ip[4])

\* incrementIP: add one to the last byte, carrying while a byte wraps to 0
incrementIP(ip) ==
  LET b4 == (ip[4] + 1) % 256
      b3 == IF b4 = 0 THEN (ip[3] + 1) % 256 ELSE ip[3]
      b2 == IF b4 = 0 /\ b3 = 0 THEN (ip[2] + 1) % 256 ELSE ip[2]
      b1 == IF b4 = 0 /\ b3 = 0 /\ b2 = 0 THEN (ip[1] + 1) % 256 ELSE ip[1]
  IN <<b1, b2, b3, b4>>

\* the loop of generateIPs over a parsed network
RECURSIVE WalkNet(_, _, _)
WalkNet(ipNet, ip, ips) ==
  IF Contains(ipNet, ip) THEN WalkNet(ipNet, incrementIP(ip), Append(ips, String(ip)))
  ELSE ips

\* generateIPs with the loop of the /24 branch running from 0 to 255
generateIPsAllOctets(network) ==
  IF HasSuffix(network, <<Slash, Zero + 2, Zero + 4>>)
  THEN LET baseIP == Split(TrimSuffix(network, <<Slash, Zero + 2, Zero + 4>>), Dot)
       IN IF Len(baseIP) = 4
          THEN [err |-> FALSE,
                ips |-> [n \in 1..256 |->
                          baseIP[1] \o <<Dot>> \o baseIP[2] \o <<Dot>> \o baseIP[3]
                            \o <<Dot>> \o Itoa(n - 1)]]
          ELSE [err |-> FALSE, ips |-> <<>>]
  ELSE LET c == ParseCIDR(network)
       IN IF c.err THEN [err |-> TRUE, ips |-> <<>>]
          ELSE LET ipNet == [IP |-> MaskIP(c.IP, c.Bits), Bits |-> c.Bits]
               IN [err |-> FALSE, ips |-> WalkNet(ipNet, MaskIP(ipNet.IP, ipNet.Bits), <<>>)]

\* generateIPs: the address list and whether an error is returned
generateIPs(network) ==
  IF HasSuffix(network, <<Slash, Zero + 2, Zero + 4>>)
  THEN LET baseIP == Split(TrimSuffix(network, <<Slash, Zero + 2, Zero + 4>>), Dot)
       IN IF Len(baseIP) = 4
          THEN [err |-> FALSE,
                ips |-> [n \in 1..254 |->
                          baseIP[1] \o <<Dot>> \o baseIP[2] \o <<Dot>> \o baseIP[3]
                            \o <<Dot>> \o Itoa(n)]]
          ELSE [err |-> FALSE, ips |-> <<>>]
  ELSE LET c == ParseCIDR(network)
       IN IF c.err THEN [err |-> TRUE, ips |-> <<>>]
          ELSE LET ipNet == [IP |-> MaskIP(c.IP, c.Bits), Bits |-> c.Bits]
               IN [err |-> FALSE, ips |-> WalkNet(ipNet, MaskIP(ipNet.IP, ipNet.Bits), <<>>)]

\* byte-wise string order, the order of Go's < on strings
RECURSIVE StringLess(_, _)
StringLess(a, b) ==
  IF b = <<>> THEN FALSE
  ELSE IF a = <<>> THEN TRUE
  ELSE IF Head(a) # Head(b) THEN Head(a) < Head(b)
  ELSE StringLess(Tail(a), Tail(b))

RECURSIVE compareParts(_, _, _)
compareParts(parts1, parts2, k) ==
  IF k > 4 THEN FALSE
  ELSE LET n1 == Sscanf(parts1[k])
           n2 == Sscanf(parts2[k])
       IN IF n1 # n2 THEN n1 < n2 ELSE compareParts(parts1, parts2, k + 1)

\* the addresses compared as strings, byte by byte
compareIPsAsStrings(ip1, ip2) == StringLess(ip1, ip2)

\* compareIPs: TRUE when ip1 sorts before ip2
compareIPs(ip1, ip2) == compareParts(Split(ip1, Dot), Split(ip2, Dot), 1)

\* sort.Slice(hosts, compareIPs on the IP fields)
RECURSIVE InsertHost(_, _)
InsertHost(h, hosts) ==
  IF hosts = <<>> THEN <<h>>
  ELSE IF compareIPs(h.IP, Head(hosts).IP) THEN <<h>> \o hosts
  ELSE <<Head(hosts)>> \o InsertHost(h, Tail(hosts))

RECURSIVE SortHosts(_)
SortHosts(hosts) ==
  IF hosts = <<>> THEN <<>> ELSE InsertHost(Head(hosts), SortHosts(Tail(hosts)))

\* sort.Slice(results, Port < Port)
RECURSIVE InsertPort(_, _)
InsertPort(r, rs) ==
  IF rs = <<>> THEN <<r>>
  ELSE IF r.Port < Head(rs).Port THEN <<r>> \o rs
  ELSE <<Head(rs)>> \o InsertPort(r, Tail(rs))

RECURSIVE SortPorts(_)
SortPorts(rs) ==
  IF rs = <<>> THEN <<>> ELSE InsertPort(Head(rs), SortPorts(Tail(rs)))

(***************************************************************************)
(* The scanner, its inputs and the network it probes.                      *)
(***************************************************************************)
VARIABLES
  s,          \* the Scanner: maxHostConcurrency, maxPortConcurrency, batchSize
  op,         \* the operation called on the scanner
  network,    \* argument network of PingSweep / NetworkDiscovery(WorkerPool)
  target,     \* argument target of ScanPorts
  ports,      \* argument ports
  ips,        \* result of generateIPs
  aliveAns,   \* answers the liveness probe has given: address -> BOOLEAN
  openAns,    \* answers the port probe has given: <<address, port>> -> BOOLEAN
  pc,         \* position of the calling goroutine
  i,          \* loop variable of the batch loop
  task,       \* position of the goroutine of each work item
  wg,         \* counter of the batch's WaitGroup
  sem,        \* len(sem) of the batch
  results,    \* buffer of the batch's results channel
  closed,     \* the batch's results channel is closed
  batchAcc,   \* batchHosts / batchResults
  all,        \* allHosts / allResults / hosts
  ret,        \* the value returned
  port,       \* per host goroutine (or worker): the nested port scan
  jobs,       \* buffer of the worker pool's jobs channel
  jobsClosed, \* the jobs channel is closed
  sent,       \* number of addresses the job sender has sent
  workerIP,   \* the address each worker is processing
  ndRet,      \* what the first operation returned, kept when a second one follows
  ctxDone,    \* the context passed to the operation is cancelled or past its deadline
  atExpiry,   \* the results aggregated at the moment the context became done
  bp,         \* the BulkProcessor: concurrency, progressCallback (set or nil)
  bulkOp,     \* the bulk operation called
  domains,    \* argument domains
  bpc,        \* position of the goroutine that called the bulk operation
  domainChan, \* buffer of domainChan (closed once filled)
  resultChan, \* buffer of resultChan
  resultClosed, \* resultChan is closed
  bwg,        \* counter of the bulk WaitGroup
  bworker,    \* each worker: its position and the domain it holds
  processed,  \* local processed
  successful, \* local successful
  bresults,   \* local results
  calls,      \* the invocations of the progress callback, in order
  inCallback, \* number of invocations of the progress callback that are running
  takers,     \* for each position of domains, the workers that received it
  summary,    \* the BulkSummary returned
  ping,       \* one call of pingHostFast: its goroutines, channel and contexts
  monitor,    \* the monitor command: its loop, its ticker and its checks
  parse,      \* one call of ParsePortRange: its argument and what it returned
  gen,        \* one call of generateIPs: its argument, its loop and what it returned
  probe       \* one call of scanPortFast: the scanner, the dial and the banner read

vars == <<s, op, network, target, ports, ips, aliveAns, openAns, pc, i, task,
          wg, sem, results, closed, batchAcc, all, ret, port, jobs, jobsClosed,
          sent, workerIP, ndRet, ctxDone, atExpiry, bp, bulkOp, domains, bpc, domainChan, resultChan,
          resultClosed, bwg, bworker, processed, successful, bresults, calls,
          inCallback, takers, summary, ping, monitor, parse, gen, probe>>

scanVars == <<s, op, network, target, ports, ips, aliveAns, openAns, pc, i, task,
              wg, sem, results, closed, batchAcc, all, ret, port, jobs, jobsClosed,
              sent, workerIP, ndRet, ctxDone, atExpiry>>

bulkVars == <<bp, bulkOp, domains, bpc, domainChan, resultChan, resultClosed, bwg,
              bworker, processed, successful, bresults, calls, inCallback, takers,
              summary>>

\* the variables of the worker pool and of the nested port scans
poolVars == <<jobs, jobsClosed, sent, workerIP>>

\* the context of the operation
ctxVars == <<ctxDone, atExpiry>>

\* the variables of pingHostFast, of the monitor command, of ParsePortRange,
\* of generateIPs and of scanPortFast
otherVars == <<ping, monitor, parse, gen, probe>>

\* "10.0.0.8/30", "10.0.0.8/31", "10.0.0.9/32" and a string that is no network
Networks ==
  { <<49, 48, 46, 48, 46, 48, 46, 56, 47, 51, 48>>,
    <<49, 48, 46, 48, 46, 48, 46, 56, 47, 51, 49>>,
    <<49, 48, 46, 48, 46, 48, 46, 57, 47, 51, 50>>,
    <<49, 48, 46, 48, 47, 56>> }

\* "10.0.0.9"
Targets == { <<49, 48, 46, 48, 46, 48, 46, 57>> }

PortLists == { <<>>, <<80>>, <<80, 22>>, <<22, 22>>, <<21, 22, 80, 443>>, <<443, 80, 22>> }

\* NewScanner
NewScanner ==
  [timeout |-> 1000, maxHostConcurrency |-> 500, maxPortConcurrency |-> 5000,
   batchSize |-> 254]

\* const portBatchSize of ScanPorts, scaled from 1000 to the size of PortLists
portBatchSize == 2

Min(a, b) == IF a < b THEN a ELSE b

\* the answers a probe of key k may give: the one it gave before, or any
Answers(known, k) == IF k \in DOMAIN known THEN {known[k]} ELSE BOOLEAN

Learn(known, k, v) == IF k \in DOMAIN known THEN known ELSE known @@ (k :> v)

\* items i+1 .. end of the batch that starts at loop index i (0-based)
Batch(n, size) == (i + 1)..Min(i + size, n)

\* no bulk operation is running
BulkIdle ==
  /\ bulkOp = "none"
  /\ domains = <<>>
  /\ bpc = "new"
  /\ domainChan = <<>>
  /\ resultChan = <<>>
  /\ resultClosed = FALSE
  /\ bwg = 0
  /\ bworker = <<>>
  /\ processed = 0
  /\ successful = 0
  /\ bresults = <<>>
  /\ calls = <<>>
  /\ inCallback = 0
  /\ takers = <<>>
  /\ summary = <<>>

\* a scanner as NewScanner returns it, no operation called
ScannerNew ==
  /\ s = NewScanner
  /\ op = "none"
  /\ network = <<>>
  /\ target = <<>>
  /\ ports = <<>>
  /\ ips = <<>>
  /\ aliveAns = <<>>
  /\ openAns = <<>>
  /\ pc = "new"
  /\ i = 0
  /\ task = <<>>
  /\ wg = 0
  /\ sem = 0
  /\ results = <<>>
  /\ closed = FALSE
  /\ batchAcc = <<>>
  /\ all = <<>>
  /\ ret = <<>>
  /\ port = <<>>
  /\ jobs = <<>>
  /\ jobsClosed = FALSE
  /\ sent = 0
  /\ workerIP = <<>>
  /\ ndRet = <<>>
  /\ ctxDone = FALSE
  /\ atExpiry = <<>>

\* no call of pingHostFast, no monitor command, no call of ParsePortRange,
\* of generateIPs or of scanPortFast
OtherIdle ==
  /\ ping = <<>>
  /\ monitor = <<>>
  /\ parse = <<>>
  /\ gen = <<>>
  /\ probe = <<>>

Init ==
  /\ ScannerNew
  /\ bp = <<>>
  /\ BulkIdle
  /\ OtherIdle

SetConcurrency ==
  /\ pc = "new"
  /\ \E hostConcurrency \in 1..MaxConcurrency, portConcurrency \in 1..MaxConcurrency :
       s' = [s EXCEPT !.maxHostConcurrency = hostConcurrency,
                      !.maxPortConcurrency = portConcurrency]
  /\ UNCHANGED <<op, network, target, ports, ips, aliveAns, openAns, pc, i, task,
                 wg, sem, results, closed, batchAcc, all, ret, port, poolVars, ndRet, bulkVars, ctxVars, otherVars>>

SetBatchSize ==
  /\ pc = "new"
  /\ \E size \in 1..MaxBatchSize : s' = [s EXCEPT !.batchSize = size]
  /\ UNCHANGED <<op, network, target, ports, ips, aliveAns, openAns, pc, i, task,
                 wg, sem, results, closed, batchAcc, all, ret, port, poolVars, ndRet, bulkVars, ctxVars, otherVars>>

(***************************************************************************)
(* PingSweep.                                                              *)
(***************************************************************************)
\* entry: generateIPs, and the error return
PingSweep_Call ==
  /\ pc = "new"
  /\ \E nw \in Networks :
       LET g == generateIPs(nw)
       IN /\ op' = "PingSweep"
          /\ network' = nw
          /\ ips' = g.ips
          /\ task' = [j \in 1..Len(g.ips) |-> "idle"]
          /\ IF g.err
             THEN pc' = "returned" /\ ret' = [err |-> TRUE]
             ELSE pc' = "loop" /\ ret' = ret
  /\ i' = 0
  /\ all' = <<>>
  /\ UNCHANGED <<s, target, ports, aliveAns, openAns, wg, sem, results, closed, batchAcc, port, poolVars, ndRet, bulkVars, ctxVars, otherVars>>

\* one iteration of the batch loop up to the start of the range over results:
\* a goroutine per address of the batch, a fresh channel and a fresh semaphore
PingSweep_Batch ==
  /\ op = "PingSweep" /\ pc = "loop" /\ i < Len(ips)
  /\ task' = [j \in DOMAIN task |-> IF j \in Batch(Len(ips), s.batchSize) THEN "wait" ELSE task[j]]
  /\ wg' = Cardinality(Batch(Len(ips), s.batchSize))
  /\ sem' = 0
  /\ results' = <<>>
  /\ closed' = FALSE
  /\ batchAcc' = <<>>
  /\ pc' = "range"
  /\ UNCHANGED <<s, op, network, target, ports, ips, aliveAns, openAns, i, all, ret, port, poolVars, ndRet, bulkVars, ctxVars, otherVars>>

\* a goroutine that goes on without a free slot in sem
PingSweep_AcquireUngated(j) ==
  /\ op = "PingSweep" /\ task[j] = "wait"
  /\ sem' = sem + 1
  /\ task' = [task EXCEPT ![j] = "probe"]
  /\ UNCHANGED <<s, op, network, target, ports, ips, aliveAns, openAns, pc, i, wg,
                 results, closed, batchAcc, all, ret, port, poolVars, ndRet, bulkVars, ctxVars, otherVars>>

\* sem <- struct{}{}
PingSweep_Acquire(j) ==
  /\ op = "PingSweep" /\ task[j] = "wait"
  /\ sem < s.maxHostConcurrency
  /\ sem' = sem + 1
  /\ task' = [task EXCEPT ![j] = "probe"]
  /\ UNCHANGED <<s, op, network, target, ports, ips, aliveAns, openAns, pc, i, wg,
                 results, closed, batchAcc, all, ret, port, poolVars, ndRet, bulkVars, ctxVars, otherVars>>

\* a probe goroutine that ends without giving its slot in sem back
PingSweep_ProbeKeepsSlot(j) ==
  /\ op = "PingSweep" /\ task[j] = "probe"
  /\ \E alive \in Answers(aliveAns, ips[j]) :
       /\ aliveAns' = Learn(aliveAns, ips[j], alive)
       /\ alive => Len(results) < Cardinality(Batch(Len(ips), s.batchSize))
       /\ results' = IF alive
                     THEN Append(results, [IP |-> ips[j], Alive |-> alive, Ports |-> <<>>])
                     ELSE results
  /\ wg' = wg - 1
  /\ task' = [task EXCEPT ![j] = "done"]
  /\ UNCHANGED <<s, op, network, target, ports, ips, openAns, pc, i, sem, closed, batchAcc, all, ret, port, poolVars, ndRet, bulkVars, ctxVars, otherVars>>

\* pingHostFast returns; the result is sent when alive (the channel has room
\* for one result per address of the batch); deferred <-sem and wg.Done
PingSweep_Probe(j) ==
  /\ op = "PingSweep" /\ task[j] = "probe"
  /\ \E alive \in Answers(aliveAns, ips[j]) :
       /\ aliveAns' = Learn(aliveAns, ips[j], alive)
       /\ alive => Len(results) < Cardinality(Batch(Len(ips), s.batchSize))
       /\ results' = IF alive
                     THEN Append(results, [IP |-> ips[j], Alive |-> alive, Ports |-> <<>>])
                     ELSE results
  /\ sem' = sem - 1
  /\ wg' = wg - 1
  /\ task' = [task EXCEPT ![j] = "done"]
  /\ UNCHANGED <<s, op, network, target, ports, ips, openAns, pc, i, closed, batchAcc, all, ret, port, poolVars, ndRet, bulkVars, ctxVars, otherVars>>

\* a closer that closes results without wg.Wait()
PingSweep_CloseNoWait ==
  /\ op = "PingSweep" /\ pc = "range" /\ ~closed
  /\ closed' = TRUE
  /\ UNCHANGED <<s, op, network, target, ports, ips, aliveAns, openAns, pc, i, task,
                 wg, sem, results, batchAcc, all, ret, port, poolVars, ndRet, bulkVars, ctxVars, otherVars>>

\* go func() { wg.Wait(); close(results) }()
PingSweep_Close ==
  /\ op = "PingSweep" /\ pc = "range" /\ ~closed
  /\ wg = 0
  /\ closed' = TRUE
  /\ UNCHANGED <<s, op, network, target, ports, ips, aliveAns, openAns, pc, i, task,
                 wg, sem, results, batchAcc, all, ret, port, poolVars, ndRet, bulkVars, ctxVars, otherVars>>

\* for result := range results { batchHosts = append(batchHosts, result) }
PingSweep_Recv ==
  /\ op = "PingSweep" /\ pc = "range" /\ results # <<>>
  /\ batchAcc' = Append(batchAcc, Head(results))
  /\ results' = Tail(results)
  /\ UNCHANGED <<s, op, network, target, ports, ips, aliveAns, openAns, pc, i, task,
                 wg, sem, closed, all, ret, port, poolVars, ndRet, bulkVars, ctxVars, otherVars>>

\* a batch end that assigns the batch to allHosts instead of appending it
PingSweep_EndBatchAssign ==
  /\ op = "PingSweep" /\ pc = "range" /\ results = <<>> /\ closed
  /\ all' = batchAcc
  /\ i' = i + s.batchSize
  /\ pc' = "loop"
  /\ UNCHANGED <<s, op, network, target, ports, ips, aliveAns, openAns, task,
                 wg, sem, results, closed, batchAcc, ret, port, poolVars, ndRet, bulkVars, ctxVars, otherVars>>

\* the range ends on the closed, drained channel; allHosts is extended; i += batchSize
PingSweep_EndBatch ==
  /\ op = "PingSweep" /\ pc = "range" /\ results = <<>> /\ closed
  /\ all' = all \o batchAcc
  /\ i' = i + s.batchSize
  /\ pc' = "loop"
  /\ UNCHANGED <<s, op, network, target, ports, ips, aliveAns, openAns, task,
                 wg, sem, results, closed, batchAcc, ret, port, poolVars, ndRet, bulkVars, ctxVars, otherVars>>

\* a return that gives up the aggregated hosts when the context is done
PingSweep_ReturnCtxErr ==
  /\ op = "PingSweep" /\ pc = "loop" /\ i >= Len(ips)
  /\ IF ctxDone
     THEN all' = <<>> /\ ret' = [err |-> TRUE]
     ELSE LET allHosts == SortHosts(all)
          IN /\ all' = allHosts
             /\ ret' = [err |-> FALSE,
                        Network |-> network,
                        Hosts |-> allHosts,
                        Summary |-> [TotalHosts |-> Len(ips), LiveHosts |-> Len(allHosts),
                                     TotalPorts |-> 0, OpenPorts |-> 0,
                                     HostsScanned |-> Len(ips), PortsScanned |-> 0]]
  /\ pc' = "returned"
  /\ UNCHANGED <<s, op, network, target, ports, ips, aliveAns, openAns, i, task,
                 wg, sem, results, closed, batchAcc, port, poolVars, ndRet, bulkVars, ctxVars, otherVars>>

\* a return that leaves the hosts in the order of arrival
PingSweep_ReturnUnsorted ==
  /\ op = "PingSweep" /\ pc = "loop" /\ i >= Len(ips)
  /\ ret' = [err |-> FALSE,
             Network |-> network,
             Hosts |-> all,
             Summary |-> [TotalHosts |-> Len(ips), LiveHosts |-> Len(all),
                          TotalPorts |-> 0, OpenPorts |-> 0,
                          HostsScanned |-> Len(ips), PortsScanned |-> 0]]
  /\ pc' = "returned"
  /\ UNCHANGED <<s, op, network, target, ports, ips, aliveAns, openAns, i, task,
                 wg, sem, results, closed, batchAcc, all, port, poolVars, ndRet, bulkVars, ctxVars, otherVars>>

\* after the loop: sort, summary, return
PingSweep_Return ==
  /\ op = "PingSweep" /\ pc = "loop" /\ i >= Len(ips)
  /\ LET allHosts == SortHosts(all)
     IN /\ all' = allHosts
        /\ ret' = [err |-> FALSE,
                   Network |-> network,
                   Hosts |-> allHosts,
                   Summary |-> [TotalHosts |-> Len(ips), LiveHosts |-> Len(allHosts),
                                TotalPorts |-> 0, OpenPorts |-> 0,
                                HostsScanned |-> Len(ips), PortsScanned |-> 0]]
  /\ pc' = "returned"
  /\ UNCHANGED <<s, op, network, target, ports, ips, aliveAns, openAns, i, task,
                 wg, sem, results, closed, batchAcc, port, poolVars, ndRet, bulkVars, ctxVars, otherVars>>

\* PingSweep is called a second time with the same network string, on the
\* same scanner and against the same hosts; what the first call returned is
\* kept in ndRet
PingSweep_CallAgain ==
  /\ op = "PingSweep" /\ pc = "returned" /\ ndRet = <<>>
  /\ ndRet' = ret
  /\ LET g == generateIPs(network)
     IN /\ ips' = g.ips
        /\ task' = [j \in 1..Len(g.ips) |-> "idle"]
        /\ IF g.err
           THEN pc' = "returned" /\ ret' = [err |-> TRUE]
           ELSE pc' = "loop" /\ ret' = <<>>
  /\ i' = 0
  /\ all' = <<>>
  /\ UNCHANGED <<s, op, network, target, ports, aliveAns, openAns, wg, sem, results, closed, batchAcc, port, poolVars, bulkVars, ctxVars, otherVars>>

(***************************************************************************)
(* ScanPorts.                                                              *)
(***************************************************************************)
ScanPorts_Call ==
  /\ pc = "new"
  /\ \E t \in Targets, ps \in PortLists :
       /\ target' = t
       /\ ports' = ps
       /\ task' = [j \in 1..Len(ps) |-> "idle"]
  /\ op' = "ScanPorts"
  /\ pc' = "loop"
  /\ i' = 0
  /\ all' = <<>>
  /\ UNCHANGED <<s, network, ips, aliveAns, openAns, wg, sem, results, closed, batchAcc, ret, port, poolVars, ndRet, bulkVars, ctxVars, otherVars>>

ScanPorts_Batch ==
  /\ op = "ScanPorts" /\ pc = "loop" /\ i < Len(ports)
  /\ task' = [j \in DOMAIN task |-> IF j \in Batch(Len(ports), portBatchSize) THEN "wait" ELSE task[j]]
  /\ wg' = Cardinality(Batch(Len(ports), portBatchSize))
  /\ sem' = 0
  /\ results' = <<>>
  /\ closed' = FALSE
  /\ batchAcc' = <<>>
  /\ pc' = "range"
  /\ UNCHANGED <<s, op, network, target, ports, ips, aliveAns, openAns, i, all, ret, port, poolVars, ndRet, bulkVars, ctxVars, otherVars>>

ScanPorts_Acquire(j) ==
  /\ op = "ScanPorts" /\ task[j] = "wait"
  /\ sem < s.maxPortConcurrency
  /\ sem' = sem + 1
  /\ task' = [task EXCEPT ![j] = "probe"]
  /\ UNCHANGED <<s, op, network, target, ports, ips, aliveAns, openAns, pc, i, wg,
                 results, closed, batchAcc, all, ret, port, poolVars, ndRet, bulkVars, ctxVars, otherVars>>

\* a port goroutine that sends its result whether the port is open or not
ScanPorts_ProbeSendAll(j) ==
  /\ op = "ScanPorts" /\ task[j] = "probe"
  /\ \E open \in Answers(openAns, <<target, ports[j]>>) :
       /\ openAns' = Learn(openAns, <<target, ports[j]>>, open)
       /\ Len(results) < Cardinality(Batch(Len(ports), portBatchSize))
       /\ results' = Append(results, [Port |-> ports[j], Open |-> open])
  /\ sem' = sem - 1
  /\ wg' = wg - 1
  /\ task' = [task EXCEPT ![j] = "done"]
  /\ UNCHANGED <<s, op, network, target, ports, ips, aliveAns, pc, i, closed, batchAcc, all, ret, port, poolVars, ndRet, bulkVars, ctxVars, otherVars>>

\* scanPortFast returns; an open result is sent; deferred <-sem and wg.Done
ScanPorts_Probe(j) ==
  /\ op = "ScanPorts" /\ task[j] = "probe"
  /\ \E open \in Answers(openAns, <<target, ports[j]>>) :
       /\ openAns' = Learn(openAns, <<target, ports[j]>>, open)
       /\ open => Len(results) < Cardinality(Batch(Len(ports), portBatchSize))
       /\ results' = IF open
                     THEN Append(results, [Port |-> ports[j], Open |-> open])
                     ELSE results
  /\ sem' = sem - 1
  /\ wg' = wg - 1
  /\ task' = [task EXCEPT ![j] = "done"]
  /\ UNCHANGED <<s, op, network, target, ports, ips, aliveAns, pc, i, closed, batchAcc, all, ret, port, poolVars, ndRet, bulkVars, ctxVars, otherVars>>

ScanPorts_Close ==
  /\ op = "ScanPorts" /\ pc = "range" /\ ~closed
  /\ wg = 0
  /\ closed' = TRUE
  /\ UNCHANGED <<s, op, network, target, ports, ips, aliveAns, openAns, pc, i, task,
                 wg, sem, results, batchAcc, all, ret, port, poolVars, ndRet, bulkVars, ctxVars, otherVars>>

ScanPorts_Recv ==
  /\ op = "ScanPorts" /\ pc = "range" /\ results # <<>>
  /\ batchAcc' = Append(batchAcc, Head(results))
  /\ results' = Tail(results)
  /\ UNCHANGED <<s, op, network, target, ports, ips, aliveAns, openAns, pc, i, task,
                 wg, sem, closed, all, ret, port, poolVars, ndRet, bulkVars, ctxVars, otherVars>>

ScanPorts_EndBatch ==
  /\ op = "ScanPorts" /\ pc = "range" /\ results = <<>> /\ closed
  /\ all' = all \o batchAcc
  /\ i' = i + portBatchSize
  /\ pc' = "loop"
  /\ UNCHANGED <<s, op, network, target, ports, ips, aliveAns, openAns, task,
                 wg, sem, results, closed, batchAcc, ret, port, poolVars, ndRet, bulkVars, ctxVars, otherVars>>

\* a return that reports an error when some probe found its port closed
ScanPorts_ReturnProbeError ==
  /\ op = "ScanPorts" /\ pc = "loop" /\ i >= Len(ports)
  /\ LET allResults == SortPorts(all)
     IN /\ all' = allResults
        /\ ret' = IF Len(allResults) < Len(ports) THEN [err |-> TRUE]
                  ELSE [err |-> FALSE, IP |-> target, Alive |-> Len(allResults) > 0,
                        Ports |-> allResults]
  /\ pc' = "returned"
  /\ UNCHANGED <<s, op, network, target, ports, ips, aliveAns, openAns, i, task,
                 wg, sem, results, closed, batchAcc, port, poolVars, ndRet, bulkVars, ctxVars, otherVars>>

\* after the loop: sort by port, return the HostResult
ScanPorts_Return ==
  /\ op = "ScanPorts" /\ pc = "loop" /\ i >= Len(ports)
  /\ LET allResults == SortPorts(all)
     IN /\ all' = allResults
        /\ ret' = [err |-> FALSE, IP |-> target, Alive |-> Len(allResults) > 0,
                   Ports |-> allResults]
  /\ pc' = "returned"
  /\ UNCHANGED <<s, op, network, target, ports, ips, aliveAns, openAns, i, task,
                 wg, sem, results, closed, batchAcc, port, poolVars, ndRet, bulkVars, ctxVars, otherVars>>

(***************************************************************************)
(* NetworkDiscovery.                                                       *)
(***************************************************************************)
\* the port scan a host goroutine (or a worker) runs over n ports:
\* positions of the port goroutines, len(portSem), the portWg counter, the
\* buffer of portResults, its closed flag and the openPorts collected
NoPortScan ==
  [t |-> <<>>, sem |-> 0, wg |-> 0, ch |-> <<>>, closed |-> FALSE, open |-> <<>>]

NewPortScan(n) ==
  [t |-> [k \in 1..n |-> "wait"], sem |-> 0, wg |-> n, ch |-> <<>>,
   closed |-> FALSE, open |-> <<>>]

NetworkDiscovery_Call ==
  /\ pc = "new"
  /\ \E nw \in Networks, ps \in PortLists :
       LET g == generateIPs(nw)
       IN /\ Len(g.ips) * (1 + Len(ps)) <= MaxDiscoveryWork
          /\ op' = "NetworkDiscovery"
          /\ network' = nw
          /\ ports' = ps
          /\ ips' = g.ips
          /\ task' = [j \in 1..Len(g.ips) |-> "idle"]
          /\ port' = [j \in 1..Len(g.ips) |-> NoPortScan]
          /\ IF g.err
             THEN pc' = "returned" /\ ret' = [err |-> TRUE]
             ELSE pc' = "loop" /\ ret' = ret
  /\ i' = 0
  /\ all' = <<>>
  /\ UNCHANGED <<s, target, aliveAns, openAns, wg, sem, results, closed, batchAcc,
                 poolVars, ndRet, bulkVars, ctxVars, otherVars>>

NetworkDiscovery_Batch ==
  /\ op = "NetworkDiscovery" /\ pc = "loop" /\ i < Len(ips)
  /\ task' = [j \in DOMAIN task |-> IF j \in Batch(Len(ips), s.batchSize) THEN "wait" ELSE task[j]]
  /\ wg' = Cardinality(Batch(Len(ips), s.batchSize))
  /\ sem' = 0
  /\ results' = <<>>
  /\ closed' = FALSE
  /\ batchAcc' = <<>>
  /\ pc' = "range"
  /\ UNCHANGED <<s, op, network, target, ports, ips, aliveAns, openAns, i, all, ret,
                 port, poolVars, ndRet, bulkVars, ctxVars, otherVars>>

NetworkDiscovery_Acquire(j) ==
  /\ op = "NetworkDiscovery" /\ task[j] = "wait"
  /\ sem < s.maxHostConcurrency
  /\ sem' = sem + 1
  /\ task' = [task EXCEPT ![j] = "probe"]
  /\ UNCHANGED <<s, op, network, target, ports, ips, aliveAns, openAns, pc, i, wg,
                 results, closed, batchAcc, all, ret, port, poolVars, ndRet, bulkVars, ctxVars, otherVars>>

\* pingHostFast returns: a dead host ends the goroutine; for a live host a
\* goroutine per port is started with a fresh portResults and a fresh portSem
NetworkDiscovery_Ping(j) ==
  /\ op = "NetworkDiscovery" /\ task[j] = "probe"
  /\ \E alive \in Answers(aliveAns, ips[j]) :
       /\ aliveAns' = Learn(aliveAns, ips[j], alive)
       /\ IF alive
          THEN /\ port' = [port EXCEPT ![j] = NewPortScan(Len(ports))]
               /\ task' = [task EXCEPT ![j] = "ports"]
               /\ UNCHANGED <<sem, wg>>
          ELSE /\ sem' = sem - 1
               /\ wg' = wg - 1
               /\ task' = [task EXCEPT ![j] = "done"]
               /\ port' = port
  /\ UNCHANGED <<s, op, network, target, ports, ips, openAns, pc, i, results, closed,
                 batchAcc, all, ret, poolVars, ndRet, bulkVars, ctxVars, otherVars>>

\* portSem <- struct{}{}
NetworkDiscovery_PortAcquire(j, k) ==
  /\ op = "NetworkDiscovery" /\ task[j] = "ports" /\ port[j].t[k] = "wait"
  /\ port[j].sem < s.maxPortConcurrency
  /\ port' = [port EXCEPT ![j].sem = @ + 1, ![j].t[k] = "scan"]
  /\ UNCHANGED <<s, op, network, target, ports, ips, aliveAns, openAns, pc, i, task,
                 wg, sem, results, closed, batchAcc, all, ret, poolVars, ndRet, bulkVars, ctxVars, otherVars>>

\* scanPortFast returns; an open result is sent; deferred <-portSem, portWg.Done
NetworkDiscovery_PortProbe(j, k) ==
  /\ op = "NetworkDiscovery" /\ task[j] = "ports" /\ port[j].t[k] = "scan"
  /\ \E open \in Answers(openAns, <<ips[j], ports[k]>>) :
       /\ openAns' = Learn(openAns, <<ips[j], ports[k]>>, open)
       /\ open => Len(port[j].ch) < Len(ports)
       /\ port' = [port EXCEPT
                     ![j].ch = IF open THEN Append(@, [Port |-> ports[k], Open |-> open]) ELSE @,
                     ![j].sem = @ - 1,
                     ![j].wg = @ - 1,
                     ![j].t[k] = "done"]
  /\ UNCHANGED <<s, op, network, target, ports, ips, aliveAns, pc, i, task,
                 wg, sem, results, closed, batchAcc, all, ret, poolVars, ndRet, bulkVars, ctxVars, otherVars>>

\* go func() { portWg.Wait(); close(portResults) }()
NetworkDiscovery_PortClose(j) ==
  /\ op = "NetworkDiscovery" /\ task[j] = "ports" /\ ~port[j].closed
  /\ port[j].wg = 0
  /\ port' = [port EXCEPT ![j].closed = TRUE]
  /\ UNCHANGED <<s, op, network, target, ports, ips, aliveAns, openAns, pc, i, task,
                 wg, sem, results, closed, batchAcc, all, ret, poolVars, ndRet, bulkVars, ctxVars, otherVars>>

\* for result := range portResults { openPorts = append(openPorts, result) }
NetworkDiscovery_PortRecv(j) ==
  /\ op = "NetworkDiscovery" /\ task[j] = "ports" /\ port[j].ch # <<>>
  /\ port' = [port EXCEPT ![j].open = Append(@, Head(port[j].ch)), ![j].ch = Tail(@)]
  /\ UNCHANGED <<s, op, network, target, ports, ips, aliveAns, openAns, pc, i, task,
                 wg, sem, results, closed, batchAcc, all, ret, poolVars, ndRet, bulkVars, ctxVars, otherVars>>

\* the range over portResults ends; the host is sent when it has an open port
\* or no port was asked for; deferred <-sem and wg.Done
NetworkDiscovery_Host(j) ==
  /\ op = "NetworkDiscovery" /\ task[j] = "ports"
  /\ port[j].ch = <<>> /\ port[j].closed
  /\ LET openPorts == port[j].open
     IN IF Len(openPorts) > 0 \/ Len(ports) = 0
        THEN /\ Len(results) < Cardinality(Batch(Len(ips), s.batchSize))
             /\ results' = Append(results, [IP |-> ips[j], Alive |-> TRUE, Ports |-> openPorts])
        ELSE results' = results
  /\ sem' = sem - 1
  /\ wg' = wg - 1
  /\ task' = [task EXCEPT ![j] = "done"]
  /\ UNCHANGED <<s, op, network, target, ports, ips, aliveAns, openAns, pc, i, closed,
                 batchAcc, all, ret, port, poolVars, ndRet, bulkVars, ctxVars, otherVars>>

NetworkDiscovery_Close ==
  /\ op = "NetworkDiscovery" /\ pc = "range" /\ ~closed
  /\ wg = 0
  /\ closed' = TRUE
  /\ UNCHANGED <<s, op, network, target, ports, ips, aliveAns, openAns, pc, i, task,
                 wg, sem, results, batchAcc, all, ret, port, poolVars, ndRet, bulkVars, ctxVars, otherVars>>

NetworkDiscovery_Recv ==
  /\ op = "NetworkDiscovery" /\ pc = "range" /\ results # <<>>
  /\ batchAcc' = Append(batchAcc, Head(results))
  /\ results' = Tail(results)
  /\ UNCHANGED <<s, op, network, target, ports, ips, aliveAns, openAns, pc, i, task,
                 wg, sem, closed, all, ret, port, poolVars, ndRet, bulkVars, ctxVars, otherVars>>

NetworkDiscovery_EndBatch ==
  /\ op = "NetworkDiscovery" /\ pc = "range" /\ results = <<>> /\ closed
  /\ all' = all \o batchAcc
  /\ i' = i + s.batchSize
  /\ pc' = "loop"
  /\ UNCHANGED <<s, op, network, target, ports, ips, aliveAns, openAns, task,
                 wg, sem, results, closed, batchAcc, ret, port, poolVars, ndRet, bulkVars, ctxVars, otherVars>>

\* sum of len(host.Ports) over the hosts
RECURSIVE CountOpen(_)
CountOpen(hosts) ==
  IF hosts = <<>> THEN 0 ELSE Len(Head(hosts).Ports) + CountOpen(Tail(hosts))

\* a summary that counts the ports of the call once, not once per live host
DiscoverySummaryPortsOnce(hosts) ==
  [TotalHosts |-> Len(ips), LiveHosts |-> Len(hosts), TotalPorts |-> Len(ports),
   OpenPorts |-> CountOpen(hosts), HostsScanned |-> Len(ips),
   PortsScanned |-> Len(ports)]

\* the summary of both discovery operations
DiscoverySummary(hosts) ==
  [TotalHosts |-> Len(ips), LiveHosts |-> Len(hosts), TotalPorts |-> Len(ports),
   OpenPorts |-> CountOpen(hosts), HostsScanned |-> Len(ips),
   PortsScanned |-> Len(hosts) * Len(ports)]

NetworkDiscovery_Return ==
  /\ op = "NetworkDiscovery" /\ pc = "loop" /\ i >= Len(ips)
  /\ LET allHosts == SortHosts(all)
     IN /\ all' = allHosts
        /\ ret' = [err |-> FALSE, Network |-> network, Hosts |-> allHosts,
                   Summary |-> DiscoverySummary(allHosts)]
  /\ pc' = "returned"
  /\ UNCHANGED <<s, op, network, target, ports, ips, aliveAns, openAns, i, task,
                 wg, sem, results, closed, batchAcc, port, poolVars, ndRet, bulkVars, ctxVars, otherVars>>

(***************************************************************************)
(* NetworkDiscoveryWorkerPool.                                             *)
(***************************************************************************)
\* const numWorkers, scaled from 50
numWorkers == 2
\* const bufferSize, scaled from 100
bufferSize == 1

\* the part of the entry that both ways of calling share: generateIPs, the
\* error return, the channels and the workers
WorkerPool_Start(nw) ==
  /\ op' = "NetworkDiscoveryWorkerPool"
  /\ LET g == generateIPs(nw)
     IN /\ ips' = g.ips
        /\ IF g.err
           THEN /\ pc' = "returned" /\ ret' = [err |-> TRUE]
                /\ UNCHANGED <<task, port, workerIP, wg>>
           ELSE /\ pc' = "collect" /\ ret' = ret
                /\ task' = [w \in 1..numWorkers |-> "recv"]
                /\ port' = [w \in 1..numWorkers |-> NoPortScan]
                /\ workerIP' = [w \in 1..numWorkers |-> <<>>]
                /\ wg' = numWorkers
  /\ jobs' = <<>>
  /\ jobsClosed' = FALSE
  /\ sent' = 0
  /\ results' = <<>>
  /\ closed' = FALSE
  /\ all' = <<>>
  /\ i' = 0
  /\ sem' = 0
  /\ batchAcc' = <<>>
  /\ UNCHANGED <<s, target, aliveAns, openAns, bulkVars, ctxVars, otherVars>>

\* entry, as the first call on the scanner
WorkerPool_Call ==
  /\ pc = "new"
  /\ \E nw \in Networks, ps \in PortLists :
       /\ Len(generateIPs(nw).ips) * (1 + Len(ps)) <= MaxDiscoveryWork
       /\ network' = nw
       /\ ports' = ps
       /\ WorkerPool_Start(nw)
  /\ ndRet' = ndRet

\* entry, as a call that follows a NetworkDiscovery call on the same scanner,
\* with the same arguments and against the same network
WorkerPool_CallAfterDiscovery ==
  /\ pc = "returned" /\ op = "NetworkDiscovery"
  /\ UNCHANGED <<network, ports>>
  /\ ndRet' = ret
  /\ WorkerPool_Start(network)

\* a sender whose every job is the first address
WorkerPool_SendJobFirst ==
  /\ op = "NetworkDiscoveryWorkerPool" /\ pc = "collect"
  /\ sent < Len(ips)
  /\ Len(jobs) < bufferSize
  /\ jobs' = Append(jobs, ips[1])
  /\ sent' = sent + 1
  /\ UNCHANGED <<s, op, network, target, ports, ips, aliveAns, openAns, pc, i, task,
                 wg, sem, results, closed, batchAcc, all, ret, port, jobsClosed,
                 workerIP, ndRet, bulkVars, ctxVars, otherVars>>

\* jobs <- ip
WorkerPool_SendJob ==
  /\ op = "NetworkDiscoveryWorkerPool" /\ pc = "collect"
  /\ sent < Len(ips)
  /\ Len(jobs) < bufferSize
  /\ jobs' = Append(jobs, ips[sent + 1])
  /\ sent' = sent + 1
  /\ UNCHANGED <<s, op, network, target, ports, ips, aliveAns, openAns, pc, i, task,
                 wg, sem, results, closed, batchAcc, all, ret, port, jobsClosed,
                 workerIP, ndRet, bulkVars, ctxVars, otherVars>>

\* close(jobs)
WorkerPool_CloseJobs ==
  /\ op = "NetworkDiscoveryWorkerPool" /\ pc = "collect"
  /\ sent = Len(ips) /\ ~jobsClosed
  /\ jobsClosed' = TRUE
  /\ UNCHANGED <<s, op, network, target, ports, ips, aliveAns, openAns, pc, i, task,
                 wg, sem, results, closed, batchAcc, all, ret, port, jobs, sent,
                 workerIP, ndRet, bulkVars, ctxVars, otherVars>>

\* a receive that leaves the last job of the queue in place
WorkerPool_TakeCopy(w) ==
  /\ op = "NetworkDiscoveryWorkerPool" /\ task[w] = "recv"
  /\ jobs # <<>>
  /\ workerIP' = [workerIP EXCEPT ![w] = Head(jobs)]
  /\ jobs' = IF Len(jobs) > 1 THEN Tail(jobs) ELSE jobs
  /\ task' = [task EXCEPT ![w] = "probe"]
  /\ UNCHANGED <<s, op, network, target, ports, ips, aliveAns, openAns, pc, i,
                 wg, sem, results, closed, batchAcc, all, ret, port, jobsClosed,
                 sent, ndRet, bulkVars, ctxVars, otherVars>>

\* for ip := range jobs
WorkerPool_Take(w) ==
  /\ op = "NetworkDiscoveryWorkerPool" /\ task[w] = "recv"
  /\ jobs # <<>>
  /\ workerIP' = [workerIP EXCEPT ![w] = Head(jobs)]
  /\ jobs' = Tail(jobs)
  /\ task' = [task EXCEPT ![w] = "probe"]
  /\ UNCHANGED <<s, op, network, target, ports, ips, aliveAns, openAns, pc, i,
                 wg, sem, results, closed, batchAcc, all, ret, port, jobsClosed,
                 sent, ndRet, bulkVars, ctxVars, otherVars>>

\* the range over jobs ends; deferred wg.Done
WorkerPool_Exit(w) ==
  /\ op = "NetworkDiscoveryWorkerPool" /\ task[w] = "recv"
  /\ jobs = <<>> /\ jobsClosed
  /\ task' = [task EXCEPT ![w] = "exit"]
  /\ wg' = wg - 1
  /\ UNCHANGED <<s, op, network, target, ports, ips, aliveAns, openAns, pc, i,
                 sem, results, closed, batchAcc, all, ret, port, poolVars, ndRet, bulkVars, ctxVars, otherVars>>

\* pingHostFast returns: continue on a dead host; for a live host a goroutine
\* per port is started, with no semaphore
WorkerPool_Ping(w) ==
  /\ op = "NetworkDiscoveryWorkerPool" /\ task[w] = "probe"
  /\ \E alive \in Answers(aliveAns, workerIP[w]) :
       /\ aliveAns' = Learn(aliveAns, workerIP[w], alive)
       /\ IF alive
          THEN /\ port' = [port EXCEPT ![w] = [NewPortScan(Len(ports)) EXCEPT
                                                 !.t = [k \in 1..Len(ports) |-> "scan"]]]
               /\ task' = [task EXCEPT ![w] = "ports"]
          ELSE /\ task' = [task EXCEPT ![w] = "recv"]
               /\ port' = port
  /\ UNCHANGED <<s, op, network, target, ports, ips, openAns, pc, i, wg, sem, results,
                 closed, batchAcc, all, ret, poolVars, ndRet, bulkVars, ctxVars, otherVars>>

\* scanPortFast returns; an open result is sent; deferred portWg.Done
WorkerPool_PortProbe(w, k) ==
  /\ op = "NetworkDiscoveryWorkerPool" /\ task[w] = "ports" /\ port[w].t[k] = "scan"
  /\ \E open \in Answers(openAns, <<workerIP[w], ports[k]>>) :
       /\ openAns' = Learn(openAns, <<workerIP[w], ports[k]>>, open)
       /\ open => Len(port[w].ch) < Len(ports)
       /\ port' = [port EXCEPT
                     ![w].ch = IF open THEN Append(@, [Port |-> ports[k], Open |-> open]) ELSE @,
                     ![w].wg = @ - 1,
                     ![w].t[k] = "done"]
  /\ UNCHANGED <<s, op, network, target, ports, ips, aliveAns, pc, i, task,
                 wg, sem, results, closed, batchAcc, all, ret, poolVars, ndRet, bulkVars, ctxVars, otherVars>>

\* go func() { portWg.Wait(); close(portChan) }()
WorkerPool_PortClose(w) ==
  /\ op = "NetworkDiscoveryWorkerPool" /\ task[w] = "ports" /\ ~port[w].closed
  /\ port[w].wg = 0
  /\ port' = [port EXCEPT ![w].closed = TRUE]
  /\ UNCHANGED <<s, op, network, target, ports, ips, aliveAns, openAns, pc, i, task,
                 wg, sem, results, closed, batchAcc, all, ret, poolVars, ndRet, bulkVars, ctxVars, otherVars>>

\* for result := range portChan { portResults = append(portResults, result) }
WorkerPool_PortRecv(w) ==
  /\ op = "NetworkDiscoveryWorkerPool" /\ task[w] = "ports" /\ port[w].ch # <<>>
  /\ port' = [port EXCEPT ![w].open = Append(@, Head(port[w].ch)), ![w].ch = Tail(@)]
  /\ UNCHANGED <<s, op, network, target, ports, ips, aliveAns, openAns, pc, i, task,
                 wg, sem, results, closed, batchAcc, all, ret, poolVars, ndRet, bulkVars, ctxVars, otherVars>>

\* the range over portChan ends: a host with an open port goes on to send
\* its result, any other host is dropped and the worker takes the next job
WorkerPool_Host(w) ==
  /\ op = "NetworkDiscoveryWorkerPool" /\ task[w] = "ports"
  /\ port[w].ch = <<>> /\ port[w].closed
  /\ task' = [task EXCEPT ![w] = IF Len(port[w].open) > 0 THEN "send" ELSE "recv"]
  /\ UNCHANGED <<s, op, network, target, ports, ips, aliveAns, openAns, pc, i,
                 wg, sem, results, closed, batchAcc, all, ret, port, poolVars, ndRet, bulkVars, ctxVars, otherVars>>

\* results <- HostResult{...}
WorkerPool_SendResult(w) ==
  /\ op = "NetworkDiscoveryWorkerPool" /\ task[w] = "send"
  /\ Len(results) < bufferSize
  /\ results' = Append(results, [IP |-> workerIP[w], Alive |-> TRUE, Ports |-> port[w].open])
  /\ task' = [task EXCEPT ![w] = "recv"]
  /\ UNCHANGED <<s, op, network, target, ports, ips, aliveAns, openAns, pc, i,
                 wg, sem, closed, batchAcc, all, ret, port, poolVars, ndRet, bulkVars, ctxVars, otherVars>>

\* go func() { wg.Wait(); close(results) }()
WorkerPool_Close ==
  /\ op = "NetworkDiscoveryWorkerPool" /\ pc = "collect" /\ ~closed
  /\ wg = 0
  /\ closed' = TRUE
  /\ UNCHANGED <<s, op, network, target, ports, ips, aliveAns, openAns, pc, i, task,
                 wg, sem, results, batchAcc, all, ret, port, poolVars, ndRet, bulkVars, ctxVars, otherVars>>

\* for result := range results { hosts = append(hosts, result) }
WorkerPool_Recv ==
  /\ op = "NetworkDiscoveryWorkerPool" /\ pc = "collect" /\ results # <<>>
  /\ all' = Append(all, Head(results))
  /\ results' = Tail(results)
  /\ UNCHANGED <<s, op, network, target, ports, ips, aliveAns, openAns, pc, i, task,
                 wg, sem, closed, batchAcc, ret, port, poolVars, ndRet, bulkVars, ctxVars, otherVars>>

\* the range over results ends: sort, summary, return
WorkerPool_Return ==
  /\ op = "NetworkDiscoveryWorkerPool" /\ pc = "collect" /\ results = <<>> /\ closed
  /\ LET hosts == SortHosts(all)
     IN /\ all' = hosts
        /\ ret' = [err |-> FALSE, Network |-> network, Hosts |-> hosts,
                   Summary |-> DiscoverySummary(hosts)]
  /\ pc' = "returned"
  /\ UNCHANGED <<s, op, network, target, ports, ips, aliveAns, openAns, i, task,
                 wg, sem, results, closed, batchAcc, port, poolVars, ndRet, bulkVars, ctxVars, otherVars>>

(***************************************************************************)
(* The context of the operation.                                           *)
(***************************************************************************)
\* the context passed to the running operation becomes done: its deadline
\* passes or its cancel function is called
ctx_Done ==
  /\ op # "none" /\ pc # "returned"
  /\ ~ctxDone
  /\ ctxDone' = TRUE
  /\ atExpiry' = all
  /\ UNCHANGED <<s, op, network, target, ports, ips, aliveAns, openAns, pc, i, task,
                 wg, sem, results, closed, batchAcc, all, ret, port, poolVars, ndRet,
                 bulkVars, otherVars>>

Next ==
  \/ SetConcurrency
  \/ SetBatchSize
  \/ PingSweep_Call
  \/ PingSweep_Batch
  \/ \E j \in DOMAIN task : PingSweep_Acquire(j)
  \/ \E j \in DOMAIN task : PingSweep_Probe(j)
  \/ PingSweep_Close
  \/ PingSweep_Recv
  \/ PingSweep_EndBatch
  \/ PingSweep_Return
  \/ ScanPorts_Call
  \/ ScanPorts_Batch
  \/ \E j \in DOMAIN task : ScanPorts_Acquire(j)
  \/ \E j \in DOMAIN task : ScanPorts_Probe(j)
  \/ ScanPorts_Close
  \/ ScanPorts_Recv
  \/ ScanPorts_EndBatch
  \/ ScanPorts_Return
  \/ NetworkDiscovery_Call
  \/ NetworkDiscovery_Batch
  \/ \E j \in DOMAIN task : NetworkDiscovery_Acquire(j)
  \/ \E j \in DOMAIN task : NetworkDiscovery_Ping(j)
  \/ \E j \in DOMAIN task, k \in DOMAIN ports : NetworkDiscovery_PortAcquire(j, k)
  \/ \E j \in DOMAIN task, k \in DOMAIN ports : NetworkDiscovery_PortProbe(j, k)
  \/ \E j \in DOMAIN task : NetworkDiscovery_PortClose(j)
  \/ \E j \in DOMAIN task : NetworkDiscovery_PortRecv(j)
  \/ \E j \in DOMAIN task : NetworkDiscovery_Host(j)
  \/ NetworkDiscovery_Close
  \/ NetworkDiscovery_Recv
  \/ NetworkDiscovery_EndBatch
  \/ NetworkDiscovery_Return
  \/ WorkerPool_Call
  \/ WorkerPool_SendJob
  \/ WorkerPool_CloseJobs
  \/ \E w \in DOMAIN task : WorkerPool_Take(w)
  \/ \E w \in DOMAIN task : WorkerPool_Exit(w)
  \/ \E w \in DOMAIN task : WorkerPool_Ping(w)
  \/ \E w \in DOMAIN task, k \in DOMAIN ports : WorkerPool_PortProbe(w, k)
  \/ \E w \in DOMAIN task : WorkerPool_PortClose(w)
  \/ \E w \in DOMAIN task : WorkerPool_PortRecv(w)
  \/ \E w \in DOMAIN task : WorkerPool_Host(w)
  \/ \E w \in DOMAIN task : WorkerPool_SendResult(w)
  \/ WorkerPool_Close
  \/ WorkerPool_Recv
  \/ WorkerPool_Return

Spec == Init /\ [][Next]_vars

\* the operations of the scanner under a context that can become done while
\* the operation runs
NextCtx ==
  \/ SetConcurrency
  \/ SetBatchSize
  \/ PingSweep_Call
  \/ PingSweep_Batch
  \/ \E j \in DOMAIN task : PingSweep_Acquire(j)
  \/ \E j \in DOMAIN task : PingSweep_Probe(j)
  \/ PingSweep_Close
  \/ PingSweep_Recv
  \/ PingSweep_EndBatch
  \/ PingSweep_Return
  \/ ScanPorts_Call
  \/ ScanPorts_Batch
  \/ \E j \in DOMAIN task : ScanPorts_Acquire(j)
  \/ \E j \in DOMAIN task : ScanPorts_Probe(j)
  \/ ScanPorts_Close
  \/ ScanPorts_Recv
  \/ ScanPorts_EndBatch
  \/ ScanPorts_Return
  \/ NetworkDiscovery_Call
  \/ NetworkDiscovery_Batch
  \/ \E j \in DOMAIN task : NetworkDiscovery_Acquire(j)
  \/ \E j \in DOMAIN task : NetworkDiscovery_Ping(j)
  \/ \E j \in DOMAIN task, k \in DOMAIN ports : NetworkDiscovery_PortAcquire(j, k)
  \/ \E j \in DOMAIN task, k \in DOMAIN ports : NetworkDiscovery_PortProbe(j, k)
  \/ \E j \in DOMAIN task : NetworkDiscovery_PortClose(j)
  \/ \E j \in DOMAIN task : NetworkDiscovery_PortRecv(j)
  \/ \E j \in DOMAIN task : NetworkDiscovery_Host(j)
  \/ NetworkDiscovery_Close
  \/ NetworkDiscovery_Recv
  \/ NetworkDiscovery_EndBatch
  \/ NetworkDiscovery_Return
  \/ WorkerPool_Call
  \/ WorkerPool_SendJob
  \/ WorkerPool_CloseJobs
  \/ \E w \in DOMAIN task : WorkerPool_Take(w)
  \/ \E w \in DOMAIN task : WorkerPool_Exit(w)
  \/ \E w \in DOMAIN task : WorkerPool_Ping(w)
  \/ \E w \in DOMAIN task, k \in DOMAIN ports : WorkerPool_PortProbe(w, k)
  \/ \E w \in DOMAIN task : WorkerPool_PortClose(w)
  \/ \E w \in DOMAIN task : WorkerPool_PortRecv(w)
  \/ \E w \in DOMAIN task : WorkerPool_Host(w)
  \/ \E w \in DOMAIN task : WorkerPool_SendResult(w)
  \/ WorkerPool_Close
  \/ WorkerPool_Recv
  \/ WorkerPool_Return
  \/ ctx_Done

SpecCtx == Init /\ [][NextCtx]_vars

\* a NetworkDiscovery call followed by a NetworkDiscoveryWorkerPool call with
\* the same arguments
NextBoth ==
  \/ SetConcurrency
  \/ SetBatchSize
  \/ NetworkDiscovery_Call
  \/ NetworkDiscovery_Batch
  \/ \E j \in DOMAIN task : NetworkDiscovery_Acquire(j)
  \/ \E j \in DOMAIN task : NetworkDiscovery_Ping(j)
  \/ \E j \in DOMAIN task, k \in DOMAIN ports : NetworkDiscovery_PortAcquire(j, k)
  \/ \E j \in DOMAIN task, k \in DOMAIN ports : NetworkDiscovery_PortProbe(j, k)
  \/ \E j \in DOMAIN task : NetworkDiscovery_PortClose(j)
  \/ \E j \in DOMAIN task : NetworkDiscovery_PortRecv(j)
  \/ \E j \in DOMAIN task : NetworkDiscovery_Host(j)
  \/ NetworkDiscovery_Close
  \/ NetworkDiscovery_Recv
  \/ NetworkDiscovery_EndBatch
  \/ NetworkDiscovery_Return
  \/ WorkerPool_SendJob
  \/ WorkerPool_CloseJobs
  \/ \E w \in DOMAIN task : WorkerPool_Take(w)
  \/ \E w \in DOMAIN task : WorkerPool_Exit(w)
  \/ \E w \in DOMAIN task : WorkerPool_Ping(w)
  \/ \E w \in DOMAIN task, k \in DOMAIN ports : WorkerPool_PortProbe(w, k)
  \/ \E w \in DOMAIN task : WorkerPool_PortClose(w)
  \/ \E w \in DOMAIN task : WorkerPool_PortRecv(w)
  \/ \E w \in DOMAIN task : WorkerPool_Host(w)
  \/ \E w \in DOMAIN task : WorkerPool_SendResult(w)
  \/ WorkerPool_Close
  \/ WorkerPool_Recv
  \/ WorkerPool_Return
  \/ WorkerPool_CallAfterDiscovery

SpecBoth == Init /\ [][NextBoth]_vars

\* two calls of PingSweep, one after the other
NextTwice ==
  \/ SetConcurrency
  \/ SetBatchSize
  \/ PingSweep_Call
  \/ PingSweep_Batch
  \/ \E j \in DOMAIN task : PingSweep_Acquire(j)
  \/ \E j \in DOMAIN task : PingSweep_Probe(j)
  \/ PingSweep_Close
  \/ PingSweep_Recv
  \/ PingSweep_EndBatch
  \/ PingSweep_Return
  \/ PingSweep_CallAgain

SpecTwice == Init /\ [][NextTwice]_vars



(***************************************************************************)
(* BulkProcessor.                                                          *)
(***************************************************************************)
\* NewBulkProcessor: the worker count is stored as given
NewBulkProcessor(concurrency) ==
  [concurrency |-> concurrency, progressCallback |-> "nil"]

DomainNames == <<"a.example", "b.example", "c.example", "d.example">>

\* the domain lists ReadDomainsFromFile can return: not empty, repeats kept
DomainLists ==
  { SubSeq(DomainNames, 1, n) : n \in 1..MaxDomains } \cup { <<"a.example", "a.example">> }

BulkOperations == {"query", "propagation", "consistency"}

\* processSingleQuery / processSinglePropagation / processSingleConsistency:
\* the BulkResult for the error the DNS operation returned ("nil" or an error)
processSingle(domain, err) ==
  [Domain |-> domain, Success |-> (err = "nil"), Error |-> err]

InitBulk ==
  /\ ScannerNew
  /\ \E concurrency \in (-1)..MaxWorkers : bp = NewBulkProcessor(concurrency)
  /\ BulkIdle
  /\ OtherIdle

SetProgressCallback ==
  /\ bpc = "new"
  /\ bp.progressCallback = "nil"
  /\ bp' = [bp EXCEPT !.progressCallback = "set"]
  /\ UNCHANGED <<scanVars, otherVars, takers, bulkOp, domains, bpc, domainChan, resultChan, resultClosed,
                 bwg, bworker, processed, successful, bresults, calls, inCallback, summary>>

\* ProcessQuery / ProcessPropagation / ProcessConsistency up to the range over
\* resultChan: domainChan is filled and closed, one goroutine per worker
Process_Call ==
  /\ bpc = "new"
  /\ \E ds \in DomainLists, o \in BulkOperations :
       /\ domains' = ds
       /\ bulkOp' = o
       /\ domainChan' = ds
  /\ resultChan' = <<>>
  /\ resultClosed' = FALSE
  /\ bworker' = [w \in 1..bp.concurrency |-> [pc |-> "recv", domain |-> ""]]
  /\ bwg' = Cardinality(1..bp.concurrency)
  /\ processed' = 0
  /\ successful' = 0
  /\ bresults' = <<>>
  /\ takers' = [k \in 1..Len(domains') |-> {}]
  /\ bpc' = "range"
  /\ UNCHANGED <<scanVars, otherVars, bp, calls, inCallback, summary>>

\* for domain := range domainChan
Process_Take(w) ==
  /\ bpc \in {"range", "callback"} /\ bworker[w].pc = "recv"
  /\ domainChan # <<>>
  /\ bworker' = [bworker EXCEPT ![w] = [pc |-> "process", domain |-> Head(domainChan)]]
  /\ domainChan' = Tail(domainChan)
  /\ takers' = [takers EXCEPT ![Len(domains) - Len(domainChan) + 1] = @ \cup {w}]
  /\ UNCHANGED <<scanVars, otherVars, bp, bulkOp, domains, bpc, resultChan, resultClosed, bwg,
                 processed, successful, bresults, calls, inCallback, summary>>

\* the DNS operation returns, with or without an error; resultChan <- result
Process_Single(w) ==
  /\ bpc \in {"range", "callback"} /\ bworker[w].pc = "process"
  /\ Len(resultChan) < Len(domains)
  /\ \E err \in {"nil", "error"} :
       resultChan' = Append(resultChan, processSingle(bworker[w].domain, err))
  /\ bworker' = [bworker EXCEPT ![w].pc = "recv"]
  /\ UNCHANGED <<scanVars, otherVars, takers, bp, bulkOp, domains, bpc, domainChan, resultClosed, bwg,
                 processed, successful, bresults, calls, inCallback, summary>>

\* the range over the closed, drained domainChan ends; deferred wg.Done
Process_Exit(w) ==
  /\ bpc \in {"range", "callback"} /\ bworker[w].pc = "recv"
  /\ domainChan = <<>>
  /\ bworker' = [bworker EXCEPT ![w].pc = "exit"]
  /\ bwg' = bwg - 1
  /\ UNCHANGED <<scanVars, otherVars, takers, bp, bulkOp, domains, bpc, domainChan, resultChan, resultClosed,
                 processed, successful, bresults, calls, inCallback, summary>>

\* go func() { wg.Wait(); close(resultChan) }()
Process_Close ==
  /\ bpc \in {"range", "callback"} /\ ~resultClosed
  /\ bwg = 0
  /\ resultClosed' = TRUE
  /\ UNCHANGED <<scanVars, otherVars, takers, bp, bulkOp, domains, bpc, domainChan, resultChan, bwg,
                 bworker, processed, successful, bresults, calls, inCallback, summary>>

\* one iteration of the range over resultChan up to the call of the callback
Process_Collect ==
  /\ bpc = "range" /\ resultChan # <<>>
  /\ LET result == Head(resultChan)
     IN /\ processed' = processed + 1
        /\ bresults' = Append(bresults, result)
        /\ successful' = IF result.Success THEN successful + 1 ELSE successful
        /\ IF bp.progressCallback # "nil"
           THEN /\ calls' = Append(calls, [current |-> processed + 1, total |-> Len(domains),
                                           domain |-> result.Domain, success |-> result.Success])
                /\ inCallback' = inCallback + 1
                /\ bpc' = "callback"
           ELSE UNCHANGED <<calls, inCallback, bpc>>
  /\ resultChan' = Tail(resultChan)
  /\ UNCHANGED <<scanVars, otherVars, takers, bp, bulkOp, domains, domainChan, resultClosed, bwg, bworker, summary>>

\* the progress callback returns
Process_CallbackReturn ==
  /\ bpc = "callback"
  /\ inCallback' = inCallback - 1
  /\ bpc' = "range"
  /\ UNCHANGED <<scanVars, otherVars, takers, bp, bulkOp, domains, domainChan, resultChan, resultClosed, bwg,
                 bworker, processed, successful, bresults, calls, summary>>

\* the range over resultChan ends; the BulkSummary is returned
Process_Return ==
  /\ bpc = "range" /\ resultChan = <<>> /\ resultClosed
  /\ summary' = [TotalDomains |-> Len(domains), Successful |-> successful,
                 Failed |-> Len(domains) - successful, Results |-> bresults]
  /\ bpc' = "returned"
  /\ UNCHANGED <<scanVars, otherVars, takers, bp, bulkOp, domains, domainChan, resultChan, resultClosed, bwg,
                 bworker, processed, successful, bresults, calls, inCallback>>

NextBulk ==
  \/ SetProgressCallback
  \/ Process_Call
  \/ \E w \in DOMAIN bworker : Process_Take(w)
  \/ \E w \in DOMAIN bworker : Process_Single(w)
  \/ \E w \in DOMAIN bworker : Process_Exit(w)
  \/ Process_Close
  \/ Process_Collect
  \/ Process_CallbackReturn
  \/ Process_Return

SpecBulk == InitBulk /\ [][NextBulk]_vars

(***************************************************************************)
(* pingHostFast.                                                           *)
(***************************************************************************)
\* ports of pingHostFast, scaled from ten to the first three
pingPorts == <<80, 443, 22>>

\* a call of pingHostFast that has not started; ctx tells whether the parent
\* context is done.  Fields: pc, the position of the caller; go, the number of
\* goroutines started; dial, the position of each goroutine; success, the
\* length of the channel success; pingCtx, whether pingCtx is done; early,
\* whether a goroutine has signalled success while pingCtx was not done.
NewPing(parentDone) ==
  [pc |-> "new", go |-> 0, dial |-> [p \in DOMAIN pingPorts |-> "idle"], success |-> 0,
   pingCtx |-> FALSE, ctx |-> parentDone, early |-> FALSE, ret |-> FALSE]

InitPing ==
  /\ ScannerNew
  /\ bp = <<>>
  /\ BulkIdle
  /\ \E parentDone \in BOOLEAN : ping = NewPing(parentDone)
  /\ monitor = <<>>
  /\ parse = <<>>
  /\ gen = <<>>
  /\ probe = <<>>

\* context.WithTimeout(ctx, 200ms) and make(chan bool, len(ports))
pingHostFast_Call ==
  /\ ping.pc = "new"
  /\ ping' = [ping EXCEPT !.pc = "spawn", !.pingCtx = ping.ctx]
  /\ UNCHANGED <<scanVars, bulkVars, monitor, parse, gen, probe>>

\* one iteration of the loop over ports: go func(p int) {...}(port)
pingHostFast_Go ==
  /\ ping.pc = "spawn" /\ ping.go < Len(pingPorts)
  /\ ping' = [ping EXCEPT !.go = @ + 1, !.dial[ping.go + 1] = "dial"]
  /\ UNCHANGED <<scanVars, bulkVars, monitor, parse, gen, probe>>

\* the caller returns v; the deferred cancel() makes pingCtx done
PingReturn(pg, v) == [pg EXCEPT !.pc = "returned", !.ret = v, !.pingCtx = TRUE]

\* the caller reaches the select: it takes a case that is ready, any of them
\* when both are, and blocks when none is
pingHostFast_Select ==
  /\ ping.pc = "spawn" /\ ping.go = Len(pingPorts)
  /\ \/ /\ ping.success > 0
        /\ ping' = PingReturn([ping EXCEPT !.success = @ - 1], TRUE)
     \/ /\ ping.pingCtx
        /\ ping' = PingReturn(ping, FALSE)
     \/ /\ ping.success = 0 /\ ~ping.pingCtx
        /\ ping' = [ping EXCEPT !.pc = "select"]
  /\ UNCHANGED <<scanVars, bulkVars, monitor, parse, gen, probe>>

\* net.DialTimeout returns a connection, which is closed
DialTimeout_Connect(p) ==
  /\ ping.dial[p] = "dial"
  /\ ping' = [ping EXCEPT !.dial[p] = "connected"]
  /\ UNCHANGED <<scanVars, bulkVars, monitor, parse, gen, probe>>

\* net.DialTimeout returns an error: refused, unreachable or 100ms passed
DialTimeout_Fail(p) ==
  /\ ping.dial[p] = "dial"
  /\ ping' = [ping EXCEPT !.dial[p] = "failed"]
  /\ UNCHANGED <<scanVars, bulkVars, monitor, parse, gen, probe>>

\* select { case success <- true: default: } of a goroutine that connected:
\* the value goes to the caller when it is blocked in its select, which then
\* returns true, and into the buffer otherwise
pingHostFast_Signal(p) ==
  /\ ping.dial[p] = "connected"
  /\ LET early == ping.early \/ ~ping.pingCtx
     IN IF ping.pc = "select"
        THEN ping' = PingReturn([ping EXCEPT !.dial[p] = "signalled", !.early = early], TRUE)
        ELSE IF ping.success < Len(pingPorts)
        THEN ping' = [ping EXCEPT !.dial[p] = "signalled", !.early = early,
                                  !.success = @ + 1]
        ELSE ping' = [ping EXCEPT !.dial[p] = "dropped"]
  /\ UNCHANGED <<scanVars, bulkVars, monitor, parse, gen, probe>>

\* the 200ms of pingCtx pass: a caller blocked in its select returns false
pingCtx_Deadline ==
  /\ ping.pc \in {"spawn", "select"} /\ ~ping.pingCtx
  /\ ping' = IF ping.pc = "select" THEN PingReturn(ping, FALSE)
             ELSE [ping EXCEPT !.pingCtx = TRUE]
  /\ UNCHANGED <<scanVars, bulkVars, monitor, parse, gen, probe>>

\* the parent context becomes done during the call, and pingCtx with it
pingCtx_ParentDone ==
  /\ ping.pc \in {"spawn", "select"} /\ ~ping.ctx
  /\ ping' = IF ping.pc = "select" THEN PingReturn([ping EXCEPT !.ctx = TRUE], FALSE)
             ELSE [ping EXCEPT !.ctx = TRUE, !.pingCtx = TRUE]
  /\ UNCHANGED <<scanVars, bulkVars, monitor, parse, gen, probe>>

NextPing ==
  \/ pingHostFast_Call
  \/ pingHostFast_Go
  \/ pingHostFast_Select
  \/ \E p \in DOMAIN pingPorts : DialTimeout_Connect(p)
  \/ \E p \in DOMAIN pingPorts : DialTimeout_Fail(p)
  \/ \E p \in DOMAIN pingPorts : pingHostFast_Signal(p)
  \/ pingCtx_Deadline
  \/ pingCtx_ParentDone

SpecPing == InitPing /\ [][NextPing]_vars

(***************************************************************************)
(* The monitor command.                                                    *)
(***************************************************************************)
\* the host lists the command is given
MonitorHosts == { <<"server1.local">>, <<"server1.local", "server2.local">> }

\* the command before RunE.  Fields: pc, the position of RunE; hosts, the
\* hosts argument; tickerC, the length of ticker.C; ticks, the number of times
\* the ticker fired; overrun, how many of them fired while a check ran;
\* running, the number of checkHosts calls in progress; host, the index of the
\* host the running check scans; checks, the number of checks started;
\* delivered, the number of ticks received from ticker.C; first, the number of
\* ticks fired when the first check started.
NewMonitor(hosts) ==
  [pc |-> "new", hosts |-> hosts, tickerC |-> 0, ticks |-> 0, overrun |-> 0,
   running |-> 0, host |-> 0, checks |-> 0, delivered |-> 0, first |-> 0]

InitMonitor ==
  /\ ScannerNew
  /\ bp = <<>>
  /\ BulkIdle
  /\ ping = <<>>
  /\ \E hosts \in MonitorHosts : monitor = NewMonitor(hosts)
  /\ parse = <<>>
  /\ gen = <<>>
  /\ probe = <<>>

\* checkHosts is called: ScanPorts of the first host is in progress
checkHosts_Call(m) == [m EXCEPT !.running = @ + 1, !.host = 1, !.checks = @ + 1]

\* time.NewTicker(interval) for an interval > 0, then the initial check
Monitor_Run ==
  /\ monitor.pc = "new"
  /\ monitor' = [checkHosts_Call(monitor) EXCEPT !.pc = "check", !.first = monitor.ticks]
  /\ UNCHANGED <<scanVars, bulkVars, ping, parse, gen, probe>>

\* the ticker fires: the tick is put into ticker.C, which holds one tick, and
\* is dropped when the previous one has not been received
Ticker_Tick ==
  /\ monitor.pc \in {"check", "wait"}
  /\ monitor.ticks < MaxTicks
  /\ monitor' = [monitor EXCEPT !.ticks = @ + 1, !.tickerC = 1,
                                !.overrun = IF monitor.running > 0 THEN @ + 1 ELSE @]
  /\ UNCHANGED <<scanVars, bulkVars, ping, parse, gen, probe>>

\* ScanPorts of a host returns and the loop of checkHosts goes to the next host
checkHosts_Host ==
  /\ monitor.pc = "check" /\ monitor.host < Len(monitor.hosts)
  /\ monitor' = [monitor EXCEPT !.host = @ + 1]
  /\ UNCHANGED <<scanVars, bulkVars, ping, parse, gen, probe>>

\* ScanPorts of the last host returns and checkHosts returns to the loop
checkHosts_Return ==
  /\ monitor.pc = "check" /\ monitor.host = Len(monitor.hosts)
  /\ monitor' = [monitor EXCEPT !.running = @ - 1, !.host = 0, !.pc = "wait"]
  /\ UNCHANGED <<scanVars, bulkVars, ping, parse, gen, probe>>

\* a tick is received while a check runs and a second check is started
Monitor_RecvOverlap ==
  /\ monitor.pc = "check" /\ monitor.tickerC = 1
  /\ monitor' = [checkHosts_Call(monitor) EXCEPT !.tickerC = 0, !.delivered = @ + 1]
  /\ UNCHANGED <<scanVars, bulkVars, ping, parse, gen, probe>>

\* for range ticker.C: a tick is received and checkHosts is called
Monitor_Recv ==
  /\ monitor.pc = "wait" /\ monitor.tickerC = 1
  /\ monitor' = [checkHosts_Call(monitor) EXCEPT
                   !.tickerC = 0, !.delivered = @ + 1, !.pc = "check"]
  /\ UNCHANGED <<scanVars, bulkVars, ping, parse, gen, probe>>

\* Ctrl+C: the process ends
Monitor_Stop ==
  /\ monitor.pc \in {"check", "wait"}
  /\ monitor' = [monitor EXCEPT !.pc = "stopped"]
  /\ UNCHANGED <<scanVars, bulkVars, ping, parse, gen, probe>>

NextMonitor ==
  \/ Monitor_Run
  \/ Ticker_Tick
  \/ checkHosts_Host
  \/ checkHosts_Return
  \/ Monitor_Recv
  \/ Monitor_Stop

SpecMonitor == InitMonitor /\ [][NextMonitor]_vars

(***************************************************************************)
(* ParsePortRange.                                                         *)
(***************************************************************************)
Comma == 44
Dash == 45
Plus == 43
Space == 32

\* strings.Contains(str, sep) for a one-byte separator
StringsContains(str, c) == IndexByte(str, c) # 0

\* the white space of an ASCII string
IsSpace(c) == c \in {9, 10, 11, 12, 13, Space}

\* strings.TrimSpace
RECURSIVE TrimLeft(_)
TrimLeft(str) == IF str # <<>> /\ IsSpace(Head(str)) THEN TrimLeft(Tail(str)) ELSE str

RECURSIVE TrimRight(_)
TrimRight(str) ==
  IF str # <<>> /\ IsSpace(str[Len(str)]) THEN TrimRight(SubSeq(str, 1, Len(str) - 1))
  ELSE str

TrimSpace(str) == TrimRight(TrimLeft(str))

\* a conversion that takes the leading digits and ignores what follows them
AtoiPrefix(str) == [err |-> FALSE, n |-> Sscanf(str)]

\* strconv.Atoi: an optional sign and then digits only, at least one
Atoi(str) ==
  LET signed == str # <<>> /\ str[1] \in {Plus, Dash}
      digits == IF signed THEN Tail(str) ELSE str
      d == ScanDigits(digits, 0, 0)
  IN IF digits = <<>> \/ d.len # Len(digits) THEN [err |-> TRUE, n |-> 0]
     ELSE [err |-> FALSE, n |-> IF str[1] = Dash THEN 0 - d.n ELSE d.n]

\* the comma branch over the tokens left: the ports so far, or the error
RECURSIVE ParseList(_, _)
ParseList(tokens, ports_) ==
  IF tokens = <<>> THEN [err |-> FALSE, ports |-> ports_]
  ELSE LET a == Atoi(TrimSpace(Head(tokens)))
       IN IF a.err THEN [err |-> TRUE, ports |-> <<>>]
          ELSE IF a.n < 1 \/ a.n > 65535 THEN [err |-> TRUE, ports |-> <<>>]
          ELSE ParseList(Tail(tokens), Append(ports_, a.n))

\* ParsePortRange: the error (nil or not) and the ports returned
ParsePortRange(portRange) ==
  IF StringsContains(portRange, Dash)
  THEN LET parts == Split(portRange, Dash)
       IN IF Len(parts) = 2
          THEN LET start == Atoi(TrimSpace(parts[1]))
                   end == Atoi(TrimSpace(parts[2]))
               IN IF start.err \/ end.err THEN [err |-> TRUE, ports |-> <<>>]
                  ELSE IF start.n > end.n \/ start.n < 1 \/ end.n > 65535
                  THEN [err |-> TRUE, ports |-> <<>>]
                  ELSE [err |-> FALSE,
                        ports |-> [k \in 1..(end.n - start.n + 1) |-> start.n + k - 1]]
          ELSE [err |-> FALSE, ports |-> <<>>]
  ELSE ParseList(Split(portRange, Comma), <<>>)

\* the bytes of the generated arguments: 0 1 5 , - + space a
PortBytes == {Zero, Zero + 1, Zero + 5, Comma, Dash, Plus, Space, 97}

\* "80,443,22", "1-5", "0", "70000", "5-1", "65535",
\* "65536", "65530-65535", "65530-65536", "1-1000", "22,80,443,8000-8100", "1-2-3"
PortRangeExamples ==
  { <<56, 48, 44, 52, 52, 51, 44, 50, 50>>,
    <<49, 45, 53>>,
    <<48>>,
    <<55, 48, 48, 48, 48>>,
    <<53, 45, 49>>,
    <<54, 53, 53, 51, 53>>,
    <<54, 53, 53, 51, 54>>,
    <<54, 53, 53, 51, 48, 45, 54, 53, 53, 51, 53>>,
    <<54, 53, 53, 51, 48, 45, 54, 53, 53, 51, 54>>,
    <<49, 45, 49, 48, 48, 48>>,
    <<50, 50, 44, 56, 48, 44, 52, 52, 51, 44, 56, 48, 48, 48, 45, 56, 49, 48, 48>>,
    <<49, 45, 50, 45, 51>> }

\* the arguments of ParsePortRange
PortRanges ==
  UNION { [1..n -> PortBytes] : n \in 0..MaxPortLen } \cup PortRangeExamples

InitParse ==
  /\ ScannerNew
  /\ bp = <<>>
  /\ BulkIdle
  /\ ping = <<>>
  /\ monitor = <<>>
  /\ gen = <<>>
  /\ probe = <<>>
  /\ \E portRange \in PortRanges :
       parse = [pc |-> "new", portRange |-> portRange, err |-> FALSE, ports |-> <<>>]

\* ParsePortRange(portRange) is called and returns
ParsePortRange_Call ==
  /\ parse.pc = "new"
  /\ LET r == ParsePortRange(parse.portRange)
     IN parse' = [parse EXCEPT !.pc = "returned", !.err = r.err, !.ports = r.ports]
  /\ UNCHANGED <<scanVars, bulkVars, ping, monitor, gen, probe>>

NextParse == ParsePortRange_Call

SpecParse == InitParse /\ [][NextParse]_vars

(***************************************************************************)
(* generateIPs as an operation of its own.                                 *)
(***************************************************************************)
\* "10", "0", "255", "256", "x" and the empty field
FieldTokens == { <<49, 48>>, <<48>>, <<50, 53, 53>>, <<50, 53, 54>>, <<120>>, <<>> }

\* "/24", "/27", "/29", "/30", "/31", "/32", "/33", "/x" and no prefix at all
PrefixTokens ==
  { <<47, 50, 52>>, <<47, 50, 55>>, <<47, 50, 57>>, <<47, 51, 48>>,
    <<47, 51, 49>>, <<47, 51, 50>>, <<47, 51, 51>>, <<47, 120>>, <<>> }

\* strings.Join(fields, ".")
RECURSIVE JoinDots(_)
JoinDots(fields) ==
  IF Len(fields) = 1 THEN fields[1]
  ELSE fields[1] \o <<Dot>> \o JoinDots(Tail(fields))

\* "foo/24", "1.2.3/24", "192.168.1.0/24", "192.168.1.77/24",
\* "255.255.255.252/30"
NetworkExamples ==
  { <<102, 111, 111, 47, 50, 52>>,
    <<49, 46, 50, 46, 51, 47, 50, 52>>,
    <<49, 57, 50, 46, 49, 54, 56, 46, 49, 46, 48, 47, 50, 52>>,
    <<49, 57, 50, 46, 49, 54, 56, 46, 49, 46, 55, 55, 47, 50, 52>>,
    <<50, 53, 53, 46, 50, 53, 53, 46, 50, 53, 53, 46, 50, 53, 50, 47, 51, 48>> }

\* the arguments of generateIPs: 1..MaxFields fields joined by dots, followed
\* by a prefix, and the examples
NetworkStrings ==
  { JoinDots(f) \o sfx :
      f \in UNION { [1..n -> FieldTokens] : n \in 1..MaxFields }, sfx \in PrefixTokens }
    \cup NetworkExamples

InitIPs ==
  /\ ScannerNew
  /\ bp = <<>>
  /\ BulkIdle
  /\ ping = <<>>
  /\ monitor = <<>>
  /\ parse = <<>>
  /\ \E n \in NetworkStrings :
       gen = [pc |-> "new", network |-> n, err |-> FALSE, ips |-> <<>>]
  /\ probe = <<>>

\* generateIPs(network) is called and returns
generateIPs_Call ==
  /\ gen.pc = "new"
  /\ LET r == generateIPs(gen.network)
     IN gen' = [gen EXCEPT !.pc = "returned", !.err = r.err, !.ips = r.ips]
  /\ UNCHANGED <<scanVars, bulkVars, ping, monitor, parse, probe>>

NextIPs == generateIPs_Call

SpecIPs == InitIPs /\ [][NextIPs]_vars

(***************************************************************************)
(* The loop of generateIPs over a parsed network, one iteration at a time. *)
(* The list ips is kept as its last element.                               *)
(***************************************************************************)
\* "0.0.0.0/0", "128.0.0.0/1", "10.1.2.3/8", "10.0.0.0/23", "192.168.1.0/25",
\* "10.0.0.8/30", "255.255.255.252/30", "255.255.255.255/32", "10.0.0.0/024", "10.0/8"
WalkNetworks ==
  { <<48, 46, 48, 46, 48, 46, 48, 47, 48>>,
    <<49, 50, 56, 46, 48, 46, 48, 46, 48, 47, 49>>,
    <<49, 48, 46, 49, 46, 50, 46, 51, 47, 56>>,
    <<49, 48, 46, 48, 46, 48, 46, 48, 47, 50, 51>>,
    <<49, 57, 50, 46, 49, 54, 56, 46, 49, 46, 48, 47, 50, 53>>,
    <<49, 48, 46, 48, 46, 48, 46, 56, 47, 51, 48>>,
    <<50, 53, 53, 46, 50, 53, 53, 46, 50, 53, 53, 46, 50, 53, 50, 47, 51, 48>>,
    <<50, 53, 53, 46, 50, 53, 53, 46, 50, 53, 53, 46, 50, 53, 53, 47, 51, 50>>,
    <<49, 48, 46, 48, 46, 48, 46, 48, 47, 48, 50, 52>>,
    <<49, 48, 46, 48, 47, 56>> }

InitWalk ==
  /\ ScannerNew
  /\ bp = <<>>
  /\ BulkIdle
  /\ ping = <<>>
  /\ monitor = <<>>
  /\ parse = <<>>
  /\ \E n \in WalkNetworks :
       gen = [pc |-> "new", network |-> n, err |-> FALSE, ipNet |-> <<>>,
              ip |-> <<>>, last |-> <<>>]
  /\ probe = <<>>

\* net.ParseCIDR(network) and the initialisation of the loop
generateIPs_ParseCIDR ==
  /\ gen.pc = "new"
  /\ ~HasSuffix(gen.network, <<Slash, Zero + 2, Zero + 4>>)
  /\ LET c == ParseCIDR(gen.network)
     IN IF c.err
        THEN gen' = [gen EXCEPT !.pc = "returned", !.err = TRUE]
        ELSE LET ipNet == [IP |-> MaskIP(c.IP, c.Bits), Bits |-> c.Bits]
             IN gen' = [gen EXCEPT !.pc = "loop", !.ipNet = ipNet,
                                   !.ip = MaskIP(ipNet.IP, ipNet.Bits)]
  /\ UNCHANGED <<scanVars, bulkVars, ping, monitor, parse, probe>>

\* one iteration: ipNet.Contains(ip), append(ips, ip.String()), incrementIP(ip)
generateIPs_Iterate ==
  /\ gen.pc = "loop"
  /\ gen.ipNet.Bits > 8
  /\ Contains(gen.ipNet, gen.ip)
  /\ gen' = [gen EXCEPT !.last = gen.ip, !.ip = incrementIP(gen.ip)]
  /\ UNCHANGED <<scanVars, bulkVars, ping, monitor, parse, probe>>

\* 2^24 iterations at once, for a network of 2^24 addresses or more: from
\* b.0.0.0 every address up to b.255.255.255 is in the network and is
\* appended, and the last incrementIP carries into the first byte
generateIPs_IterateBlock ==
  /\ gen.pc = "loop"
  /\ gen.ipNet.Bits <= 8
  /\ Contains(gen.ipNet, gen.ip)
  /\ gen.ip[2] = 0 /\ gen.ip[3] = 0 /\ gen.ip[4] = 0
  /\ LET end == <<gen.ip[1], 255, 255, 255>>
     IN gen' = [gen EXCEPT !.last = end, !.ip = incrementIP(end)]
  /\ UNCHANGED <<scanVars, bulkVars, ping, monitor, parse, probe>>

\* the loop condition fails: return ips, nil
generateIPs_Return ==
  /\ gen.pc = "loop"
  /\ ~Contains(gen.ipNet, gen.ip)
  /\ gen' = [gen EXCEPT !.pc = "returned"]
  /\ UNCHANGED <<scanVars, bulkVars, ping, monitor, parse, probe>>

NextWalk ==
  \/ generateIPs_ParseCIDR
  \/ generateIPs_Iterate
  \/ generateIPs_IterateBlock
  \/ generateIPs_Return

SpecWalk == InitWalk /\ [][NextWalk]_vars

(***************************************************************************)
(* scanPortFast and grabBannerFast.  Durations are in milliseconds.        *)
(***************************************************************************)
\* var commonServices
commonServices ==
  (21 :> "FTP") @@ (22 :> "SSH") @@ (23 :> "Telnet") @@ (25 :> "SMTP") @@ (53 :> "DNS")
    @@ (80 :> "HTTP") @@ (110 :> "POP3") @@ (135 :> "RPC") @@ (139 :> "NetBIOS")
    @@ (143 :> "IMAP") @@ (443 :> "HTTPS") @@ (445 :> "SMB") @@ (993 :> "IMAPS")
    @@ (995 :> "POP3S") @@ (1433 :> "MSSQL") @@ (3306 :> "MySQL") @@ (3389 :> "RDP")
    @@ (5432 :> "PostgreSQL") @@ (5900 :> "VNC") @@ (6379 :> "Redis")
    @@ (8080 :> "HTTP-Alt") @@ (9200 :> "Elasticsearch")

\* commonServices[port]: the zero value for a port that is no key
ServiceOf(p) == IF p \in DOMAIN commonServices THEN commonServices[p] ELSE ""

\* the ports probed, 9999 and 70000 being no key of commonServices
ProbePorts == {21, 22, 25, 80, 443, 8080, 6379, 9999, 70000}

\* the arguments of SetTimeout
Timeouts == {100, 500, 1000, 3000, 5000}

\* what conn.Read may deliver: "SSH-2.0-OpenSSH_8.9\r\n", "220 mail ESMTP\n",
\* "HTTP/1.1 400 Bad Request\r\nContent-Type: text/html\r\n\r\n", " \r\n"
\* and no byte at all
BannerData ==
  { <<83, 83, 72, 45, 50, 46, 48, 45, 79, 112, 101, 110, 83, 83, 72, 95, 56, 46, 57, 13, 10>>,
    <<50, 50, 48, 32, 109, 97, 105, 108, 32, 69, 83, 77, 84, 80, 10>>,
    <<72, 84, 84, 80, 47, 49, 46, 49, 32, 52, 48, 48, 32, 66, 97, 100, 32, 82, 101, 113, 117, 101, 115, 116, 13, 10, 67, 111, 110, 116, 101, 110, 116, 45, 84, 121, 112, 101, 58, 32, 116, 101, 120, 116, 47, 104, 116, 109, 108, 13, 10, 13, 10>>,
    <<32, 13, 10>>,
    <<>> }

\* strings.ReplaceAll(str, old, new) for a non-empty old
RECURSIVE ReplaceAll(_, _, _)
ReplaceAll(str, old, new) ==
  IF Len(str) < Len(old) THEN str
  ELSE IF SubSeq(str, 1, Len(old)) = old
       THEN new \o ReplaceAll(SubSeq(str, Len(old) + 1, Len(str)), old, new)
       ELSE <<Head(str)>> \o ReplaceAll(Tail(str), old, new)

\* the banner grabBannerFast makes of the bytes read
Banner(data) ==
  LET b1 == ReplaceAll(data, <<13, 10>>, <<Space>>)
      b2 == ReplaceAll(b1, <<10>>, <<Space>>)
      b3 == TrimSpace(b2)
  IN IF Len(b3) > 40 THEN SubSeq(b3, 1, 40) \o <<Dot, Dot, Dot>> ELSE b3

PortResult(p, open, service, banner) ==
  [Port |-> p, Open |-> open, Service |-> service, Banner |-> banner]

InitProbe ==
  /\ ScannerNew
  /\ bp = <<>>
  /\ BulkIdle
  /\ ping = <<>>
  /\ monitor = <<>>
  /\ parse = <<>>
  /\ gen = <<>>
  /\ probe = [pc |-> "new", port |-> 0, timeout |-> 0, connected |-> FALSE,
              deadline |-> 0, wrote |-> FALSE, reads |-> 0, readErr |-> FALSE,
              ret |-> <<>>]

\* SetTimeout(timeout)
SetTimeout ==
  /\ probe.pc = "new"
  /\ \E timeout \in Timeouts : s' = [s EXCEPT !.timeout = timeout]
  /\ UNCHANGED <<op, network, target, ports, ips, aliveAns, openAns, pc, i, task,
                 wg, sem, results, closed, batchAcc, all, ret, port, poolVars,
                 ndRet, bulkVars, ctxVars, otherVars>>

\* scanPortFast(host, port): timeout := 1 * time.Second and net.DialTimeout
\* is called with it
scanPortFast_Call ==
  /\ probe.pc = "new"
  /\ \E p \in ProbePorts : probe' = [probe EXCEPT !.pc = "dial", !.port = p, !.timeout = 1000]
  /\ UNCHANGED <<scanVars, bulkVars, ping, monitor, parse, gen>>

\* net.DialTimeout returns an error
scanPortFast_DialErr ==
  /\ probe.pc = "dial"
  /\ probe' = [probe EXCEPT !.pc = "returned",
                            !.ret = PortResult(probe.port, FALSE, "", <<>>)]
  /\ UNCHANGED <<scanVars, bulkVars, ping, monitor, parse, gen>>

\* net.DialTimeout returns a connection; grabBannerFast sets the read
\* deadline, writes its request on 80 and 8080 and returns at once on 443
scanPortFast_DialOk ==
  /\ probe.pc = "dial"
  /\ IF probe.port = 443
     THEN probe' = [probe EXCEPT !.pc = "returned", !.connected = TRUE, !.deadline = 500,
                      !.ret = PortResult(probe.port, TRUE, ServiceOf(probe.port), <<>>)]
     ELSE probe' = [probe EXCEPT !.pc = "read", !.connected = TRUE, !.deadline = 500,
                      !.wrote = probe.port \in {80, 8080}]
  /\ UNCHANGED <<scanVars, bulkVars, ping, monitor, parse, gen>>

\* a failed read that makes the port closed
grabBannerFast_ReadErrClosesPort ==
  /\ probe.pc = "read"
  /\ probe' = [probe EXCEPT !.pc = "returned", !.reads = @ + 1, !.readErr = TRUE,
                            !.ret = PortResult(probe.port, FALSE, "", <<>>)]
  /\ UNCHANGED <<scanVars, bulkVars, ping, monitor, parse, gen>>

\* conn.Read returns an error (the read deadline passed, or the peer closed)
grabBannerFast_ReadErr ==
  /\ probe.pc = "read"
  /\ probe' = [probe EXCEPT !.pc = "returned", !.reads = @ + 1, !.readErr = TRUE,
                            !.ret = PortResult(probe.port, TRUE, ServiceOf(probe.port), <<>>)]
  /\ UNCHANGED <<scanVars, bulkVars, ping, monitor, parse, gen>>

\* conn.Read returns bytes
grabBannerFast_Read ==
  /\ probe.pc = "read"
  /\ \E data \in BannerData :
       probe' = [probe EXCEPT !.pc = "returned", !.reads = @ + 1,
                   !.ret = PortResult(probe.port, TRUE, ServiceOf(probe.port), Banner(data))]
  /\ UNCHANGED <<scanVars, bulkVars, ping, monitor, parse, gen>>

NextProbe ==
  \/ SetTimeout
  \/ scanPortFast_Call
  \/ scanPortFast_DialErr
  \/ scanPortFast_DialOk
  \/ grabBannerFast_ReadErr
  \/ grabBannerFast_Read

SpecProbe == InitProbe /\ [][NextProbe]_vars

(***************************************************************************)
(* Properties.                                                             *)
(***************************************************************************)
\* "10.0.0.9" and "10.0.0.10"
IP9 == <<49, 48, 46, 48, 46, 48, 46, 57>>
IP10 == <<49, 48, 46, 48, 46, 48, 46, 49, 48>>

Batched == op \in {"PingSweep", "ScanPorts", "NetworkDiscovery"}

\* the goroutines of work items that hold a slot of the batch's semaphore
Holding == {j \in DOMAIN task : task[j] \in {"probe", "ports"}}

\* the port goroutines of a discovery that are inside scanPortFast
Scanning ==
  {jk \in (DOMAIN task) \X (DOMAIN ports) :
     task[jk[1]] = "ports" /\ port[jk[1]].t[jk[2]] = "scan"}

\* C1: in PingSweep and NetworkDiscovery at most maxHostConcurrency work
\* items are past the host semaphore at any moment, and in ScanPorts at most
\* maxPortConcurrency scanPortFast calls run at any moment.
C1_ProbesWithinLimit ==
  /\ op \in {"PingSweep", "NetworkDiscovery"} => Cardinality(Holding) <= s.maxHostConcurrency
  /\ op = "ScanPorts" => Cardinality(Holding) <= s.maxPortConcurrency

\* the limit is reached while another address of the batch waits for a slot
C1_Witness ==
  /\ op = "PingSweep"
  /\ Cardinality(Holding) = s.maxHostConcurrency
  /\ \E j \in DOMAIN task : task[j] = "wait"

\* the batch (counted from 0) of work item j
BatchOf(j) ==
  (j - 1) \div (IF op = "ScanPorts" THEN portBatchSize ELSE s.batchSize)

\* work item j has a result to contribute, by the answers of the probes
Produces(j) ==
  CASE op = "PingSweep" -> ips[j] \in DOMAIN aliveAns /\ aliveAns[ips[j]]
    [] op = "ScanPorts" -> <<target, ports[j]>> \in DOMAIN openAns /\ openAns[<<target, ports[j]>>]
    [] op = "NetworkDiscovery" ->
         /\ ips[j] \in DOMAIN aliveAns /\ aliveAns[ips[j]]
         /\ \/ ports = <<>>
            \/ \E k \in DOMAIN ports :
                 <<ips[j], ports[k]>> \in DOMAIN openAns /\ openAns[<<ips[j], ports[k]>>]

\* the aggregate holds the result of work item j
Aggregated(j) ==
  \E k \in DOMAIN all :
    IF op = "ScanPorts" THEN all[k].Port = ports[j] ELSE all[k].IP = ips[j]

\* C2: while a goroutine of some batch has been started and has not finished,
\* every work item of an earlier batch has finished and its result, if it has
\* one, is in the aggregate, and no work item of a later batch has been started.
C2_BatchesInSequence ==
  Batched =>
    \A j \in DOMAIN task : task[j] \in {"wait", "probe", "ports"} =>
      \A e \in DOMAIN task :
        /\ BatchOf(e) < BatchOf(j) => task[e] = "done" /\ (Produces(e) => Aggregated(e))
        /\ BatchOf(e) > BatchOf(j) => task[e] = "idle"

\* a probe of a later batch runs while the aggregate holds an earlier result
C2_Witness ==
  /\ op = "PingSweep"
  /\ \E j \in DOMAIN task : task[j] = "probe" /\ BatchOf(j) > 0
  /\ all # <<>>

\* C3: in NetworkDiscovery the scanPortFast calls running at one moment,
\* counted over all hosts, never exceed maxPortConcurrency.
C3_PortCeilingOverAllHosts ==
  op = "NetworkDiscovery" => Cardinality(Scanning) <= s.maxPortConcurrency

\* the four numbers of a dotted address
Octets(ip) == [k \in 1..4 |-> ScanDigits(Split(ip, Dot)[k], 0, 0).n]

\* numeric order of addresses, octet by octet
NumericLeq(ip1, ip2) ==
  LET a == Octets(ip1)
      b == Octets(ip2)
  IN \/ a = b
     \/ \E k \in 1..4 : a[k] < b[k] /\ \A m \in 1..(k - 1) : a[m] = b[m]

Returned(o) == op = o /\ pc = "returned" /\ ~ret.err

\* C4: the Hosts returned by PingSweep, NetworkDiscovery and
\* NetworkDiscoveryWorkerPool are in ascending numeric address order.
C4_HostsSortedNumerically ==
  \A o \in {"PingSweep", "NetworkDiscovery", "NetworkDiscoveryWorkerPool"} :
    Returned(o) =>
      \A a, b \in DOMAIN ret.Hosts : a < b => NumericLeq(ret.Hosts[a].IP, ret.Hosts[b].IP)

\* 10.0.0.10 was received before 10.0.0.9 and is returned right after it
C4_Witness ==
  /\ Returned("PingSweep")
  /\ \E a, b \in DOMAIN batchAcc : a < b /\ batchAcc[a].IP = IP10 /\ batchAcc[b].IP = IP9
  /\ \E a \in DOMAIN ret.Hosts :
       a + 1 \in DOMAIN ret.Hosts /\ ret.Hosts[a].IP = IP9 /\ ret.Hosts[a + 1].IP = IP10

PortsAscending(rs) == \A a, b \in DOMAIN rs : a < b => rs[a].Port <= rs[b].Port

\* C5: the Ports of every HostResult returned by ScanPorts, NetworkDiscovery
\* and NetworkDiscoveryWorkerPool are in ascending port order.
C5_PortsSorted ==
  /\ Returned("ScanPorts") => PortsAscending(ret.Ports)
  /\ \A o \in {"NetworkDiscovery", "NetworkDiscoveryWorkerPool"} :
       Returned(o) => \A h \in DOMAIN ret.Hosts : PortsAscending(ret.Hosts[h].Ports)

\* the requests of port p that the probe answered open
OpenRequests(p) ==
  {j \in DOMAIN ports : ports[j] = p /\ <<target, p>> \in DOMAIN openAns /\ openAns[<<target, p>>]}

\* C6: the Ports returned by ScanPorts hold one entry for each requested port
\* whose probe reported open and none for a closed port, every entry has
\* Open = TRUE and the entries are in ascending port order.
C6_ScanPortsOpenOnly ==
  Returned("ScanPorts") =>
    /\ \A k \in DOMAIN ret.Ports : ret.Ports[k].Open
    /\ PortsAscending(ret.Ports)
    /\ \A p \in {ports[j] : j \in DOMAIN ports} \cup {ret.Ports[k].Port : k \in DOMAIN ret.Ports} :
         Cardinality({k \in DOMAIN ret.Ports : ret.Ports[k].Port = p})
           = Cardinality(OpenRequests(p))
    /\ ret.IP = target

\* 21, 22, 80, 443 requested, 22 and 443 reported open: exactly 22 then 443
C6_Witness ==
  /\ Returned("ScanPorts")
  /\ ports = <<21, 22, 80, 443>>
  /\ all = <<[Port |-> 22, Open |-> TRUE], [Port |-> 443, Open |-> TRUE]>>
  /\ ret.Ports = <<[Port |-> 22, Open |-> TRUE], [Port |-> 443, Open |-> TRUE]>>
  /\ ~openAns[<<target, 21>>] /\ ~openAns[<<target, 80>>]

\* C7: PingSweep returns exactly the enumerated addresses whose liveness probe
\* returned true, each once with Alive = TRUE and no ports; LiveHosts is the
\* number of returned hosts, TotalHosts and HostsScanned the number of
\* enumerated addresses.
C7_PingSweepLiveHosts ==
  Returned("PingSweep") =>
    /\ {ret.Hosts[k].IP : k \in DOMAIN ret.Hosts}
         = {ips[j] : j \in {e \in DOMAIN ips : aliveAns[ips[e]]}}
    /\ Len(ret.Hosts) = Cardinality({e \in DOMAIN ips : aliveAns[ips[e]]})
    /\ \A k \in DOMAIN ret.Hosts : ret.Hosts[k].Alive /\ ret.Hosts[k].Ports = <<>>
    /\ ret.Summary.LiveHosts = Len(ret.Hosts)
    /\ ret.Summary.TotalHosts = Len(ips)
    /\ ret.Summary.HostsScanned = Len(ips)

\* live hosts of more than one batch are returned, a dead host is not
C7_Witness ==
  /\ Returned("PingSweep")
  /\ s.batchSize < Len(ips)
  /\ \E a, b \in DOMAIN ips :
       /\ BatchOf(a) # BatchOf(b)
       /\ aliveAns[ips[a]] /\ aliveAns[ips[b]]
  /\ \E e \in DOMAIN ips : ~aliveAns[ips[e]]
  /\ Len(ret.Hosts) >= 2

\* C8: called with the arguments and against the probe answers of a
\* NetworkDiscovery call, NetworkDiscoveryWorkerPool returns the same Hosts
\* and the same Summary.
C8_WorkerPoolSameAsDiscovery ==
  (op = "NetworkDiscoveryWorkerPool" /\ pc = "returned" /\ "err" \in DOMAIN ndRet) =>
    ret = ndRet

\* the results that failed
FailedResults(rs) == {k \in DOMAIN rs : ~rs[k].Success}

\* C9: whatever the worker count, the BulkSummary has TotalDomains = number of
\* domains, one BulkResult per input domain, Successful = number of successful
\* results, Failed = number of failed results, each with an error.
C9_BulkSummaryCounts ==
  bpc = "returned" =>
    /\ summary.TotalDomains = Len(domains)
    /\ Len(summary.Results) = Len(domains)
    /\ \A d \in {domains[k] : k \in DOMAIN domains} :
         Cardinality({k \in DOMAIN summary.Results : summary.Results[k].Domain = d})
           = Cardinality({k \in DOMAIN domains : domains[k] = d})
    /\ summary.Successful = Len(summary.Results) - Cardinality(FailedResults(summary.Results))
    /\ summary.Failed = Cardinality(FailedResults(summary.Results))
    /\ \A k \in FailedResults(summary.Results) : summary.Results[k].Error # "nil"

\* C10: the progress callback runs one invocation at a time, and by the end of
\* a bulk run over n domains it was invoked n times, with current = 1, ..., n
\* in that order and total = n.
C10_ProgressCallback ==
  /\ inCallback <= 1
  /\ \A k \in DOMAIN calls : calls[k].current = k /\ calls[k].total = Len(domains)
  /\ (bpc = "returned" /\ bp.progressCallback = "set") => Len(calls) = Len(domains)

\* the workers that are inside the DNS operation of a domain
Processing == {w \in DOMAIN bworker : bworker[w].pc = "process"}

\* C11: in a bulk run the DNS operations running at one moment never exceed
\* the configured worker count, no domain is received by two workers, and by
\* the end of the run every input domain was received by exactly one worker.
C11_BulkWorkersBounded ==
  bulkOp # "none" =>
    /\ Processing # {} => Cardinality(Processing) <= bp.concurrency
    /\ \A k \in DOMAIN takers : Cardinality(takers[k]) <= 1
    /\ bpc = "returned" => \A k \in DOMAIN takers : Cardinality(takers[k]) = 1

\* C12: once the context is done no port probe is started: the scanPortFast
\* calls that run after a step taken under a done context ran before it.
C12_NoPortProbeAfterCancel ==
  [][ctxDone =>
       /\ op = "ScanPorts" => Holding' \subseteq Holding
       /\ op \in {"NetworkDiscovery", "NetworkDiscoveryWorkerPool"} =>
            Scanning' \subseteq Scanning]_vars

\* C13: a PingSweep whose context became done while it ran returns a nil
\* error and a ScanResult that holds every host that was aggregated when the
\* context became done.
C13_PartialResultsKept ==
  (op = "PingSweep" /\ pc = "returned" /\ ctxDone) =>
    /\ ~ret.err
    /\ \A k \in DOMAIN atExpiry : \E h \in DOMAIN ret.Hosts : ret.Hosts[h] = atExpiry[k]

\* the context became done between two batches: a host was aggregated before
\* and another one after, and both are returned
C13_Witness ==
  /\ Returned("PingSweep") /\ ctxDone
  /\ atExpiry # <<>>
  /\ Len(ret.Hosts) > Len(atExpiry)
  /\ \A k \in DOMAIN atExpiry : \E h \in DOMAIN ret.Hosts : ret.Hosts[h] = atExpiry[k]

\* C14: ScanPorts never returns an error; PingSweep, NetworkDiscovery and
\* NetworkDiscoveryWorkerPool return an error only for a network that
\* generateIPs rejects, and then no probe was started or answered.
C14_ProbeFailuresNotErrors ==
  pc = "returned" =>
    /\ op = "ScanPorts" => ~ret.err
    /\ (op \in {"PingSweep", "NetworkDiscovery", "NetworkDiscoveryWorkerPool"} /\ ret.err) =>
         /\ generateIPs(network).err
         /\ aliveAns = <<>> /\ openAns = <<>>
         /\ Holding = {} /\ Scanning = {}

\* every probe of a ScanPorts call found its port closed, the error is nil
C14_Witness ==
  /\ op = "ScanPorts" /\ pc = "returned"
  /\ Len(ports) >= 2
  /\ \A j \in DOMAIN ports : ~openAns[<<target, ports[j]>>]
  /\ ~ret.err /\ ret.Ports = <<>>

\* the connect attempts of the call that succeeded
Connected == {p \in DOMAIN pingPorts : ping.dial[p] \in {"connected", "signalled", "dropped"}}

\* C15: pingHostFast returns true only if one of its connect attempts
\* succeeded (so it returns false when none did), and it returns true when an
\* attempt signalled its success before pingCtx was done, by the deadline or
\* by the parent context.
C15_PingResult ==
  ping.pc = "returned" =>
    /\ ping.ret => Connected # {}
    /\ ping.early => ping.ret

\* C16: the first check starts before the ticker has fired, every later
\* check is started by one tick received from the ticker, at most one check
\* runs at any moment, and a tick that fires while a check runs starts no
\* check before that check has returned.
C16_MonitorChecksInSequence ==
  monitor.pc # "new" =>
    /\ monitor.first = 0
    /\ monitor.checks = 1 + monitor.delivered
    /\ monitor.delivered <= monitor.ticks
    /\ monitor.running <= 1
    /\ monitor.pc = "wait" => monitor.running = 0

\* the ticker fired while the first check ran, and the second check runs now
C16_Witness ==
  /\ monitor.pc = "check"
  /\ monitor.checks = 2 /\ monitor.running = 1
  /\ monitor.overrun >= 1 /\ monitor.ticks = monitor.overrun

\* C17: the Summary returned by PingSweep, NetworkDiscovery and
\* NetworkDiscoveryWorkerPool has LiveHosts <= TotalHosts and
\* OpenPorts <= PortsScanned.
C17_SummaryConsistent ==
  \A o \in {"PingSweep", "NetworkDiscovery", "NetworkDiscoveryWorkerPool"} :
    Returned(o) =>
      /\ ret.Summary.LiveHosts <= ret.Summary.TotalHosts
      /\ ret.Summary.OpenPorts <= ret.Summary.PortsScanned

\* port 22 asked for twice and open: two open ports of two scanned
C17_Witness ==
  /\ Returned("NetworkDiscovery")
  /\ ports = <<22, 22>>
  /\ ret.Summary.LiveHosts >= 1
  /\ ret.Summary.OpenPorts = ret.Summary.PortsScanned
  /\ ret.Summary.OpenPorts = 2 * ret.Summary.LiveHosts

\* the workers of the pool that hold an address
Working == {w \in DOMAIN task : task[w] \in {"probe", "ports", "send"}}

\* C18: no two HostResults returned by PingSweep, NetworkDiscovery or
\* NetworkDiscoveryWorkerPool have the same address, and no two workers of the
\* pool hold the same address.
C18_NoHostTwice ==
  /\ \A o \in {"PingSweep", "NetworkDiscovery", "NetworkDiscoveryWorkerPool"} :
       Returned(o) =>
         \A a, b \in DOMAIN ret.Hosts : a # b => ret.Hosts[a].IP # ret.Hosts[b].IP
  /\ op = "NetworkDiscoveryWorkerPool" =>
       \A v, w \in Working : v # w => workerIP[v] # workerIP[w]

\* the pool returns two hosts
C18_Witness ==
  /\ Returned("NetworkDiscoveryWorkerPool")
  /\ Len(ret.Hosts) = 2
  /\ ret.Hosts[1].IP # ret.Hosts[2].IP

\* number of bytes c in str
CountByte(str, c) == Cardinality({k \in 1..Len(str) : str[k] = c})

\* the digits of a token: white space around it and a plus sign taken off
Digits(tok) ==
  LET t == TrimSpace(tok) IN IF t # <<>> /\ t[1] = Plus THEN Tail(t) ELSE t

\* the token is a decimal number
Numeral(tok) ==
  Digits(tok) # <<>> /\ \A k \in 1..Len(Digits(tok)) : IsDigit(Digits(tok)[k])

\* the number a numeral stands for
RECURSIVE DigitsValue(_)
DigitsValue(d) ==
  IF d = <<>> THEN 0 ELSE 10 * DigitsValue(SubSeq(d, 1, Len(d) - 1)) + (d[Len(d)] - Zero)

PortNumber(tok) == DigitsValue(Digits(tok))

\* the token is the number of a port
NamesPort(tok) == Numeral(tok) /\ PortNumber(tok) \in 1..65535

\* the token is a range a-b with 1 <= a <= b <= 65535
RangeToken(tok) ==
  /\ CountByte(tok, Dash) = 1
  /\ LET sides == Split(tok, Dash)
     IN /\ Numeral(sides[1]) /\ Numeral(sides[2])
        /\ 1 <= PortNumber(sides[1])
        /\ PortNumber(sides[1]) <= PortNumber(sides[2])
        /\ PortNumber(sides[2]) <= 65535

\* the ports a, a+1, ..., b
FromTo(a, b) == [k \in 1..(b - a + 1) |-> a + k - 1]

\* the ports of a range token
RangePorts(tok) ==
  FromTo(PortNumber(Split(tok, Dash)[1]), PortNumber(Split(tok, Dash)[2]))

RECURSIVE ExpandTokens(_)
ExpandTokens(tokens) ==
  IF tokens = <<>> THEN <<>>
  ELSE (IF RangeToken(Head(tokens)) THEN RangePorts(Head(tokens))
        ELSE <<PortNumber(Head(tokens))>>) \o ExpandTokens(Tail(tokens))

\* a comma list that holds port numbers and ranges, at least one of each
Mixed(portRange) ==
  LET tokens == Split(portRange, Comma)
  IN /\ \A k \in DOMAIN tokens : NamesPort(tokens[k]) \/ RangeToken(tokens[k])
     /\ \E k \in DOMAIN tokens : NamesPort(tokens[k])
     /\ \E k \in DOMAIN tokens : RangeToken(tokens[k])

\* C20: ParsePortRange accepts a comma list that mixes port numbers and
\* ranges, such as 22,80,443,8000-8100, and returns the ports of its tokens
\* in order: the single ports and every port of each range.
C20_MixedAccepted ==
  (parse.pc = "returned" /\ Mixed(parse.portRange)) =>
    /\ ~parse.err
    /\ parse.ports = ExpandTokens(Split(parse.portRange, Comma))

\* the suffix "/24"
Suffix24 == <<Slash, Zero + 2, Zero + 4>>

\* the string is a well-formed IPv4 /24 network: it ends in "/24" and what is
\* before it are four decimal octets
WellFormed24(str) ==
  /\ HasSuffix(str, Suffix24)
  /\ ~ParseCIDR(str).err

\* C21: generateIPs returns an error and no address list for every argument
\* that is neither a well-formed IPv4 /24 network nor parseable CIDR notation,
\* also when the argument merely ends in "/24".
C21_InvalidNetworkIsError ==
  (gen.pc = "returned" /\ ~WellFormed24(gen.network) /\ ParseCIDR(gen.network).err)
    => gen.err /\ gen.ips = <<>>

\* C22: for a valid a.b.c.d/24 generateIPs returns, without error, exactly
\* the 254 addresses a.b.c.1 .. a.b.c.254 in ascending order.
C22_Slash24Addresses ==
  (gen.pc = "returned" /\ WellFormed24(gen.network)) =>
    LET a == ParseCIDR(gen.network).IP
    IN /\ ~gen.err
       /\ Len(gen.ips) = 254
       /\ \A n \in 1..254 : gen.ips[n] = String(<<a[1], a[2], a[3], n>>)

\* "192.168.1.77/24" has returned its 254 addresses
C22_Witness ==
  /\ gen.pc = "returned"
  /\ gen.network = <<49, 57, 50, 46, 49, 54, 56, 46, 49, 46, 55, 55, 47, 50, 52>>
  /\ Len(gen.ips) = 254
  /\ gen.ips[254] = <<49, 57, 50, 46, 49, 54, 56, 46, 49, 46, 50, 53, 52>>

\* the last address of a network
Broadcast(ipNet) ==
  [b \in 1..4 |-> ipNet.IP[b] + Pow2(8 - MaskBits(ipNet.Bits, b)) - 1]

\* numeric order of two 4-byte addresses
BytesLess(a, b) ==
  \E k \in 1..4 : a[k] < b[k] /\ \A j \in 1..(k - 1) : a[j] = b[j]

\* C23: for a parseable IPv4 CIDR with a prefix other than /24, generateIPs
\* returns every address from the network address to the broadcast address,
\* ascending and without duplicates, each inside the network, 2^(32-prefix)
\* in all: the first address appended is the network address, every address
\* appended is inside the network and numerically above the one appended
\* before it, and the call returns with the broadcast address appended last.
C23_CIDRAddresses ==
  (gen.pc \in {"loop", "returned"} /\ ~gen.err) =>
    /\ (gen.pc = "loop" /\ gen.last = <<>>) => gen.ip = gen.ipNet.IP
    /\ gen.last # <<>> => Contains(gen.ipNet, gen.last)
    /\ (gen.pc = "loop" /\ gen.last # <<>> /\ Contains(gen.ipNet, gen.ip))
         => BytesLess(gen.last, gen.ip)
    /\ gen.pc = "returned" => gen.last = Broadcast(gen.ipNet)

\* C30: generateIPs terminates on every parseable CIDR: once the last
\* address of the network is appended the loop condition fails, also when
\* incrementIP has wrapped past 255.255.255.255 to 0.0.0.0.
C30_LoopStopsAfterLastAddress ==
  (gen.pc = "loop" /\ gen.last = Broadcast(gen.ipNet))
    => ~Contains(gen.ipNet, gen.ip)

\* C24: the connect timeout of every port connect attempt is the timeout of
\* the scanner: the one set with SetTimeout, or the 1 second default of
\* NewScanner when SetTimeout was not called.
C24_ConnectTimeoutIsConfigured ==
  probe.pc \in {"dial", "read", "returned"} => probe.timeout = s.timeout

\* C25: a port probe reports Open = true exactly when its connect
\* succeeded; a failed read leaves Open = true with an empty banner; port
\* 443 yields an empty banner without any read; a port that is no key of
\* commonServices yields an empty service name; a failed connect yields
\* Open = false with empty service and banner.
C25_OpenIffConnected ==
  probe.pc = "returned" =>
    /\ probe.ret.Port = probe.port
    /\ probe.ret.Open = probe.connected
    /\ probe.readErr => (probe.ret.Open /\ probe.ret.Banner = <<>>)
    /\ (probe.connected /\ probe.port = 443) => (probe.ret.Banner = <<>> /\ probe.reads = 0)
    /\ (probe.connected /\ probe.port \notin DOMAIN commonServices) => probe.ret.Service = ""
    /\ (probe.connected /\ probe.port \in DOMAIN commonServices)
         => probe.ret.Service = commonServices[probe.port]
    /\ ~probe.connected => (probe.ret.Service = "" /\ probe.ret.Banner = <<>>)

\* the read of a connected probe of port 22 failed
C25_Witness ==
  /\ probe.pc = "returned"
  /\ probe.port = 22
  /\ probe.readErr
  /\ probe.ret = PortResult(22, TRUE, "SSH", <<>>)

\* C26: a second PingSweep over the same network string, against hosts whose
\* liveness answers are those of the first run, returns the same hosts in the
\* same order and the same summary counts as the first, whatever the
\* interleaving of the probe tasks in each run.
C26_PingSweepTwice ==
  (op = "PingSweep" /\ pc = "returned" /\ ndRet # <<>>) =>
    /\ ret.err = ndRet.err
    /\ ~ret.err => (ret.Hosts = ndRet.Hosts /\ ret.Summary = ndRet.Summary)

\* the second run has returned the two live hosts the first run returned
C26_Witness ==
  /\ op = "PingSweep" /\ pc = "returned" /\ ndRet # <<>>
  /\ ~ret.err
  /\ Len(ret.Hosts) >= 2
  /\ ret.Hosts = ndRet.Hosts

\* a batched operation of the scanner is running
Running == op \in {"PingSweep", "ScanPorts", "NetworkDiscovery"} /\ pc # "returned"

\* the indices of the batch in progress
BatchNow ==
  IF op = "ScanPorts" THEN Batch(Len(ports), portBatchSize)
  ELSE Batch(Len(ips), s.batchSize)

RECURSIVE SumTo(_, _)
SumTo(f, n) == IF n = 0 THEN 0 ELSE f[n] + SumTo(f, n - 1)

\* the work left in the port scan of one host: goroutines that have not
\* finished, results not received, and the close of portResults
PortScanLeft(ps) ==
  SumTo([k \in DOMAIN ps.t |-> CASE ps.t[k] = "wait" -> 3 [] ps.t[k] = "scan" -> 2
                                   [] OTHER -> 0], Len(ps.t))
    + Len(ps.ch) + (IF ps.closed THEN 0 ELSE 1)

\* the work left for task j
TaskLeft(j) ==
  LET n == 3 * Len(ports)
  IN CASE task[j] = "idle" -> n + 8
       [] task[j] = "wait" -> n + 7
       [] task[j] = "probe" -> n + 6
       [] task[j] = "ports" -> 4 + PortScanLeft(port[j])
       [] OTHER -> IF j <= i THEN 0 ELSE 2

\* the work left in the operation: it is never negative
WorkLeft ==
  SumTo([j \in DOMAIN task |-> TaskLeft(j)], Len(task))
    + Len(results) + (IF closed THEN 0 ELSE 1) + (IF pc = "loop" THEN 1 ELSE 0)

\* a step of a batched operation other than its return
BatchedStep ==
  \/ PingSweep_Batch
  \/ \E j \in DOMAIN task : PingSweep_Acquire(j)
  \/ \E j \in DOMAIN task : PingSweep_Probe(j)
  \/ PingSweep_Close
  \/ PingSweep_Recv
  \/ PingSweep_EndBatch
  \/ ScanPorts_Batch
  \/ \E j \in DOMAIN task : ScanPorts_Acquire(j)
  \/ \E j \in DOMAIN task : ScanPorts_Probe(j)
  \/ ScanPorts_Close
  \/ ScanPorts_Recv
  \/ ScanPorts_EndBatch
  \/ NetworkDiscovery_Batch
  \/ \E j \in DOMAIN task : NetworkDiscovery_Acquire(j)
  \/ \E j \in DOMAIN task : NetworkDiscovery_Ping(j)
  \/ \E j \in DOMAIN task, k \in DOMAIN ports : NetworkDiscovery_PortAcquire(j, k)
  \/ \E j \in DOMAIN task, k \in DOMAIN ports : NetworkDiscovery_PortProbe(j, k)
  \/ \E j \in DOMAIN task : NetworkDiscovery_PortClose(j)
  \/ \E j \in DOMAIN task : NetworkDiscovery_PortRecv(j)
  \/ \E j \in DOMAIN task : NetworkDiscovery_Host(j)
  \/ NetworkDiscovery_Close
  \/ NetworkDiscovery_Recv
  \/ NetworkDiscovery_EndBatch

\* the batch loop has ended: the operation sorts and returns
ReturnReady == pc = "loop" /\ i >= Len(task)

\* C27: with a batch size and a concurrency limit of 1 or more, PingSweep,
\* ScanPorts and NetworkDiscovery terminate when every probe returns: until
\* the operation returns, either the batch loop has ended or some task, the
\* closer or the collector can take a step (no task is stuck for ever on the
\* semaphore or on the result channel, which never holds more than the
\* batch length), and every step lowers the work left, which is never
\* negative; the result channel of a batch is closed once, and only when
\* every task of the batch has finished.
C27_ScannerTerminates ==
  /\ [](Running =>
          (/\ (ReturnReady \/ ENABLED BatchedStep)
           /\ WorkLeft >= 0
           /\ (pc = "range" => Len(results) <= Cardinality(BatchNow))
           /\ ((pc = "range" /\ closed) => \A j \in BatchNow : task[j] = "done")))
  /\ [][Running =>
          (/\ WorkLeft' < WorkLeft
           /\ (ReturnReady => pc' = "returned")
           /\ ((closed /\ pc = "range") => (closed' \/ pc' = "loop")))]_vars

\* PingSweep has returned after two batches of two addresses each, run with
\* one slot in the semaphore
C27_Witness ==
  /\ op = "PingSweep" /\ pc = "returned"
  /\ s.maxHostConcurrency = 1 /\ s.batchSize = 2
  /\ Len(ips) = 4
  /\ \A j \in DOMAIN task : task[j] = "done"

\* the worker pool is running
RunningPool == op = "NetworkDiscoveryWorkerPool" /\ pc # "returned"

\* a step of the worker pool other than its return
PoolStep ==
  \/ WorkerPool_SendJob
  \/ WorkerPool_CloseJobs
  \/ \E w \in DOMAIN task : WorkerPool_Take(w)
  \/ \E w \in DOMAIN task : WorkerPool_Exit(w)
  \/ \E w \in DOMAIN task : WorkerPool_Ping(w)
  \/ \E w \in DOMAIN task, k \in DOMAIN ports : WorkerPool_PortProbe(w, k)
  \/ \E w \in DOMAIN task : WorkerPool_PortClose(w)
  \/ \E w \in DOMAIN task : WorkerPool_PortRecv(w)
  \/ \E w \in DOMAIN task : WorkerPool_Host(w)
  \/ \E w \in DOMAIN task : WorkerPool_SendResult(w)
  \/ WorkerPool_Close
  \/ WorkerPool_Recv

\* the work left for worker w
WorkerLeft(w) ==
  CASE task[w] = "recv" -> 1
    [] task[w] = "probe" -> 3 * Len(ports) + 6
    [] task[w] = "ports" -> 4 + PortScanLeft(port[w])
    [] task[w] = "send" -> 3
    [] OTHER -> 0

\* the work left in the pool: addresses not sent, jobs not taken, the two
\* closes, the workers, the results not collected and the return
PoolLeft ==
  (Len(ips) - sent) * (3 * Len(ports) + 8) + Len(jobs) * (3 * Len(ports) + 7)
    + (IF jobsClosed THEN 0 ELSE 1)
    + SumTo([w \in DOMAIN task |-> WorkerLeft(w)], Len(task))
    + Len(results) + (IF closed THEN 0 ELSE 1) + (IF pc = "collect" THEN 1 ELSE 0)

\* worker w receives the job at the head of the queue in this step
Takes(w) ==
  /\ task[w] = "recv" /\ task'[w] = "probe"
  /\ jobs # <<>> /\ workerIP'[w] = Head(jobs)

\* C28: NetworkDiscoveryWorkerPool terminates when every probe returns, also
\* with more addresses than slots in the job and result buffers: until it
\* returns, either the results are closed and collected or the sender, a
\* worker, the closer or the collector can take a step, and every step
\* lowers the work left; every job that leaves the queue is received by
\* exactly one worker and a worker starts on a host only by receiving it;
\* no more than numWorkers hosts are processed at the same moment; the
\* buffers never hold more than bufferSize; results is closed only after
\* all workers have exited, with every address sent and taken.
C28_WorkerPoolTerminates ==
  /\ [](RunningPool =>
          (/\ ((results = <<>> /\ closed) \/ ENABLED PoolStep)
           /\ PoolLeft >= 0
           /\ Cardinality(Working) <= numWorkers
           /\ Len(jobs) <= bufferSize /\ Len(results) <= bufferSize
           /\ (closed => /\ \A w \in DOMAIN task : task[w] = "exit"
                         /\ sent = Len(ips) /\ jobs = <<>>)))
  /\ [][RunningPool =>
          (/\ PoolLeft' < PoolLeft
           /\ (jobs' # jobs /\ sent' = sent) =>
                 (/\ jobs' = Tail(jobs)
                  /\ Cardinality({w \in DOMAIN task : Takes(w)}) = 1)
           /\ \A w \in DOMAIN task :
                 (task[w] = "recv" /\ task'[w] = "probe") => (Takes(w) /\ jobs' = Tail(jobs))
           /\ (closed => closed'))]_vars

\* the pool has returned after four addresses went through a job buffer of
\* bufferSize slots and were taken by the workers
C28_Witness ==
  /\ op = "NetworkDiscoveryWorkerPool" /\ pc = "returned"
  /\ Len(ips) = 4 /\ Len(ips) > bufferSize
  /\ sent = 4 /\ jobs = <<>>
  /\ \A w \in DOMAIN task : task[w] = "exit"

\* C29: when ParsePortRange returns a nil error the list it returns is not
\* empty and every port of it lies in 1..65535; an argument from which no
\* port can be derived, such as "1-2-3", yields an error.
C29_NoPortsIsError ==
  (parse.pc = "returned" /\ ~parse.err) =>
    /\ parse.ports # <<>>
    /\ \A k \in DOMAIN parse.ports : parse.ports[k] \in 1..65535
====
